---- MODULE Spec2Model ----
(***************************************************************************)
(* The data-import pipeline of containerized-data-importer: the phase      *)
(* engine DataProcessor.ProcessData(), driven by the MockDataProvider and  *)
(* the fakeQEMUOperations of pkg/importer/data-processor_test.go.          *)
(***************************************************************************)
EXTENDS Integers, Sequences, FiniteSets, TLC

(* ------------------------------------------------------------------ *)
(* Bounds                                                             *)
(* ------------------------------------------------------------------ *)

\* Largest number of handler dispatches one run of the loop is followed for.
MaxDispatch == 10

(* ------------------------------------------------------------------ *)
(* ProcessingPhase                                                    *)
(* ------------------------------------------------------------------ *)

ProcessingPhaseInfo == "Info"
ProcessingPhaseTransferScratch == "TransferScratch"
ProcessingPhaseTransferDataDir == "TransferDataDir"
ProcessingPhaseTransferDataFile == "TransferDataFile"
ProcessingPhaseProcess == "Process"
ProcessingPhaseConvert == "Convert"
ProcessingPhaseResize == "Resize"
ProcessingPhaseComplete == "Complete"
ProcessingPhaseError == "Error"

\* The closed enumeration of phases.
Phases ==
  { ProcessingPhaseInfo, ProcessingPhaseTransferScratch, ProcessingPhaseTransferDataDir,
    ProcessingPhaseTransferDataFile, ProcessingPhaseProcess, ProcessingPhaseConvert,
    ProcessingPhaseResize, ProcessingPhaseComplete, ProcessingPhaseError }

\* ProcessingPhase("invalidphase"): a value outside the enumeration.
InvalidPhase == "invalidphase"

\* Every value a provider may be configured to answer with.
PhaseValues == Phases \cup {InvalidPhase}

\* The phases whose handler is a call of the provider.
ProviderPhases ==
  { ProcessingPhaseInfo, ProcessingPhaseTransferScratch, ProcessingPhaseTransferDataDir,
    ProcessingPhaseTransferDataFile, ProcessingPhaseProcess }

\* The phases whose handler calls Transfer(path).
TransferPhases == { ProcessingPhaseTransferScratch, ProcessingPhaseTransferDataDir }

\* The phases that have a handler at all (Complete ends the loop, Error has none).
HandledPhases == ProviderPhases \cup { ProcessingPhaseConvert, ProcessingPhaseResize }

(* ------------------------------------------------------------------ *)
(* Errors                                                             *)
(* ------------------------------------------------------------------ *)

\* An error value is the chain of its messages, outermost first; the last
\* one is the originating cause.  The nil error is the empty chain.
NoErr == << >>

\* errors.New(msg)
NewErr(msg) == <<msg>>

\* errors.Wrap(err, msg)
Wrap(err, msg) == <<msg>> \o err

\* errors.Cause(err) as a message: the originating error.
Cause(err) == err[Len(err)]

\* strings.Contains(err.Error(), msg)
Mentions(err, msg) == \E i \in 1..Len(err) : err[i] = msg

\* Sentinel returned by a provider whose transfer path is unusable.
ErrInvalidPath == NewErr("invalid transfer path")

\* Sentinel: scratch space required and none found.
ErrRequiresScratchSpace == NewErr("Scratch space required and none found")

\* The error of the loop's default branch.
UnknownPhaseErr == NewErr("Unknown processing phase")

(* ------------------------------------------------------------------ *)
(* Job set-up of the tests                                            *)
(* ------------------------------------------------------------------ *)

\* NewDataProcessor(mdp, "dest", "dataDir", "scratchDataDir", "1G")
DestPath == "dest"
DataDir == "dataDir"
ScratchDataDir == "scratchDataDir"

\* The single destination file inside the working data directory.
DataFile == "dataDir/disk.img"

\* The blank requested capacity "".
BlankSize == 0

\* The requested capacities a job is created with (bytes; "" is BlankSize).
RequestedSizes == {BlankSize, 1500}

\* The available-space estimates a job is created with (dp.availableSpace).
AvailableSpaces == {1024, 1500}

SmallVirtualSize == 1024

\* The logical sizes the tooling's probe reports.
VirtualSizes == {SmallVirtualSize}

(* ------------------------------------------------------------------ *)
(* MockDataProvider                                                   *)
(* ------------------------------------------------------------------ *)

\* A freshly built mock: the three canned answers and needsScratch are the
\* test's input, the recording fields start empty.
NewMockDataProvider(infoResponse, transferResponse, processResponse, needsScratch) ==
  [ infoResponse |-> infoResponse,
    transferResponse |-> transferResponse,
    processResponse |-> processResponse,
    needsScratch |-> needsScratch,
    transferPath |-> "",
    transferFile |-> "",
    calledPhases |-> << >> ]

\* The result of one provider call: the mock after it, and (phase, error).
Reply(m, phase, err) == [m |-> m, phase |-> phase, err |-> err]

\* MockInfo with the recording of the call left out.
MockInfo_NoRecord(m) ==
  IF m.infoResponse = ProcessingPhaseError
    THEN Reply(m, ProcessingPhaseError, NewErr("Info errored"))
    ELSE Reply(m, m.infoResponse, NoErr)

\* func (m *MockDataProvider) Info() (ProcessingPhase, error)
MockInfo(m) ==
  LET m1 == [m EXCEPT !.calledPhases = Append(@, ProcessingPhaseInfo)]
  IN  IF m.infoResponse = ProcessingPhaseError
        THEN Reply(m1, ProcessingPhaseError, NewErr("Info errored"))
        ELSE Reply(m1, m.infoResponse, NoErr)

\* MockTransfer with the assignment of m.transferPath left out.
MockTransfer_NoPath(m, path) ==
  LET m1 == [m EXCEPT !.calledPhases = Append(@, m.infoResponse)]
  IN  IF m.transferResponse = ProcessingPhaseError
        THEN IF m.needsScratch
               THEN Reply(m1, ProcessingPhaseError, ErrInvalidPath)
               ELSE Reply(m1, ProcessingPhaseError, NewErr("Transfer errored"))
        ELSE Reply(m1, m.transferResponse, NoErr)

\* MockTransfer with the needsScratch branch left out.
MockTransfer_IgnoresNeedsScratch(m, path) ==
  LET m1 == [m EXCEPT !.calledPhases = Append(@, m.infoResponse),
                      !.transferPath = path]
  IN  IF m.transferResponse = ProcessingPhaseError
        THEN Reply(m1, ProcessingPhaseError, NewErr("Transfer errored"))
        ELSE Reply(m1, m.transferResponse, NoErr)

\* MockTransfer answering ErrInvalidPath whether or not scratch is needed.
MockTransfer_AlwaysInvalidPath(m, path) ==
  LET m1 == [m EXCEPT !.calledPhases = Append(@, m.infoResponse),
                      !.transferPath = path]
  IN  IF m.transferResponse = ProcessingPhaseError
        THEN Reply(m1, ProcessingPhaseError, ErrInvalidPath)
        ELSE Reply(m1, m.transferResponse, NoErr)

\* func (m *MockDataProvider) Transfer(path string) (ProcessingPhase, error)
\* The call is recorded under m.infoResponse, not under the phase it ran in.
MockTransfer(m, path) ==
  LET m1 == [m EXCEPT !.calledPhases = Append(@, m.infoResponse),
                      !.transferPath = path]
  IN  IF m.transferResponse = ProcessingPhaseError
        THEN IF m.needsScratch
               THEN Reply(m1, ProcessingPhaseError, ErrInvalidPath)
               ELSE Reply(m1, ProcessingPhaseError, NewErr("Transfer errored"))
        ELSE Reply(m1, m.transferResponse, NoErr)

\* func (m *MockDataProvider) TransferFile(fileName string) (ProcessingPhase, error)
MockTransferFile(m, fileName) ==
  LET m1 == [m EXCEPT !.calledPhases = Append(@, ProcessingPhaseTransferDataFile),
                      !.transferFile = fileName]
  IN  IF m.transferResponse = ProcessingPhaseError
        THEN Reply(m1, ProcessingPhaseError, NewErr("TransferFile errored"))
        ELSE Reply(m1, m.transferResponse, NoErr)

\* MockProcess with the recording of the call left out.
MockProcess_NoRecord(m) ==
  IF m.processResponse = ProcessingPhaseError
    THEN Reply(m, ProcessingPhaseError, NewErr("Process errored"))
    ELSE Reply(m, m.processResponse, NoErr)

\* func (m *MockDataProvider) Process() (ProcessingPhase, error)
MockProcess(m) ==
  LET m1 == [m EXCEPT !.calledPhases = Append(@, ProcessingPhaseProcess)]
  IN  IF m.processResponse = ProcessingPhaseError
        THEN Reply(m1, ProcessingPhaseError, NewErr("Process errored"))
        ELSE Reply(m1, m.processResponse, NoErr)

(* ------------------------------------------------------------------ *)
(* fakeQEMUOperations                                                 *)
(* ------------------------------------------------------------------ *)

\* NewFakeQEMUOperations(e2, e3, ret4, e5, ...): the canned results of
\* ConvertToRawStream, Resize, Info and Validate.
NewFakeQEMUOperations(e2, e3, ret4, e5) ==
  [e2 |-> e2, e3 |-> e3, ret4 |-> ret4, e5 |-> e5]

\* fakeInfoOpRetVal{imgInfo, e}
FakeInfoOpRetVal(virtualSize, e) == [virtualSize |-> virtualSize, e |-> e]

\* The fakes a test may install.
FakeQEMUOperationsSet ==
  { NewFakeQEMUOperations(e2, e3, FakeInfoOpRetVal(v, e4), e5) :
      e2 \in {NoErr, NewErr("Conversion failure")},
      e3 \in {NoErr, NewErr("Resize failure")},
      v \in VirtualSizes,
      e4 \in {NoErr, NewErr("Info failure")},
      e5 \in {NoErr, NewErr("Validation failure")} }

\* ConvertToRawStream answering with the resize result e3 instead of e2.
FakeConvertToRawStream_WrongField(o, url, dest) == o.e3

\* func (o *fakeQEMUOperations) ConvertToRawStream(*url.URL, string) error
FakeConvertToRawStream(o, url, dest) == o.e2

\* Validate answering with the conversion result e2 instead of e5.
FakeValidate_WrongField(o, url, availableSize) == o.e2

\* func (o *fakeQEMUOperations) Validate(*url.URL, int64) error
FakeValidate(o, url, availableSize) == o.e5

\* Resize answering with the conversion result e2 instead of e3.
FakeResize_WrongField(o, dest, size) == o.e2

\* func (o *fakeQEMUOperations) Resize(dest string, size resource.Quantity) error
FakeResize(o, dest, size) == o.e3

\* Info answering with fakeZeroImageInfo whatever image the fake was built with.
FakeInfo_ZeroImage(o, url) == FakeInfoOpRetVal(0, o.ret4.e)

\* func (o *fakeQEMUOperations) Info(url *url.URL) (*image.ImgInfo, error)
FakeInfo(o, url) == o.ret4

\* One entry of the record of disk-tooling calls: the operation and its
\* arguments.
ToolCall(op, target, size) == [op |-> op, target |-> target, size |-> size]

(* ------------------------------------------------------------------ *)
(* State                                                              *)
(* ------------------------------------------------------------------ *)

VARIABLES
  mdp,             \* the MockDataProvider bound to the job
  qemuOperations,  \* the disk-tooling adapter in force
  dp,              \* the DataProcessor's fields
  dataDirExists,   \* whether dp.dataDir exists as a directory
  pc,              \* "running" inside ProcessData()'s loop, "done" once it returned
  ret,             \* the error ProcessData() returned
  dispatched,      \* the phases whose handler the loop has called, in order
  handlerErr,      \* the error the last handler reported, before the loop wrapped it
  qemuCalls,       \* the disk-tooling operations invoked, in order
  stage,           \* the last direct call of convert(), resize() or ResizeImage()
  getAvailableSpaceBlockFunc,  \* the block-device capacity probe in force
  fsFree,          \* free bytes of the filesystem that holds dp.dataDir
  probeCalls,      \* the paths the capacity probe was called with, in order
  frames,          \* the replace...() calls in progress, innermost last
  panicking,       \* whether a panic is unwinding the replace...() calls
  ended,           \* the replace...() call that ended last, and how
  sched,           \* the second import job: which job runs, and the one that waits
  goroutines,      \* the replaceQEMUOperations() calls of concurrent goroutines
  request,         \* what the webhook is called with, and the cluster it asks
  response         \* what the webhook's function answered

\* The state of ProcessData()'s loop.
engineVars == <<mdp, qemuOperations, dp, dataDirExists, pc, ret, dispatched, handlerErr,
                qemuCalls>>

\* The state of the available-capacity estimator.
estimatorVars == <<getAvailableSpaceBlockFunc, fsFree, probeCalls>>

\* The state of the scoped overrides.
overrideVars == <<frames, panicking, ended, goroutines>>

\* The state of the admission webhook.
webhookVars == <<request, response>>

vars == <<engineVars, stage, estimatorVars, overrideVars, sched, webhookVars>>

\* The state that ProcessData()'s loop never touches.
others == <<stage, estimatorVars, overrideVars, sched, webhookVars>>

\* No stage has been called directly.
NoStage ==
  [fn |-> "none", imageSize |-> 0, totalSpace |-> 0, phase |-> "none",
   err |-> NoErr, calls |-> << >>]

\* A capacity probe, func(string) int64: the bytes it answers for a device it
\* can read, and whether it can read the destination at all.
NewProbe(name, bytes, canRead) == [name |-> name, bytes |-> bytes, canRead |-> canRead]

\* What the probe answers for a readable block device.
BlockDeviceBytes == 100000

\* util.GetAvailableSpaceBlock, the probe in force when nothing replaced it.
GetAvailableSpaceBlock == NewProbe("util.GetAvailableSpaceBlock", BlockDeviceBytes, FALSE)

\* No replace...() call has ended.
NoneEnded == [how |-> "none"]

\* No goroutine calls replaceQEMUOperations().
NoGoroutines == << >>

\* The webhook has not been called.
NoRequest == [kind |-> "none"]

\* The webhook has answered nothing.
NoResponse == [fn |-> "none"]

\* Only one job exists.
NoSched == [current |-> 1, parked |-> << >>, initial |-> << >>]

\* NewDataProcessor(dataSource, dataFile/dest, dataDir, scratchDataDir, requestImageSize)
NewDataProcessor(dest, dataDir, scratchDataDir, requestImageSize, availableSpace) ==
  [ currentPhase |-> ProcessingPhaseInfo,
    dest |-> dest,
    dataFile |-> DataFile,
    dataDir |-> dataDir,
    scratchDataDir |-> scratchDataDir,
    requestImageSize |-> requestImageSize,
    availableSpace |-> availableSpace ]

(* ------------------------------------------------------------------ *)
(* Convert and Resize stages                                          *)
(* ------------------------------------------------------------------ *)

\* What a stage hands back: next phase, error, and the tooling calls it made.
StageResult(phase, err, calls) == [phase |-> phase, err |-> err, calls |-> calls]

\* The clamp taking the larger of the two quantities.
Min_TakesLarger(a, b) == IF a <= b THEN b ELSE a

\* util.MinQuantity
Min(a, b) == IF a <= b THEN a ELSE b

\* convert(url): validate against the available-capacity estimate, then
\* stream-convert into the data file; either failure yields Error.
convert(d, o, url) ==
  LET v == ToolCall("Validate", url, d.availableSpace)
      c == ToolCall("ConvertToRawStream", url, 0)
  IN  IF FakeValidate(o, url, d.availableSpace) # NoErr
        THEN StageResult(ProcessingPhaseError,
                         Wrap(FakeValidate(o, url, d.availableSpace), "Image validation failed"),
                         <<v>>)
        ELSE IF FakeConvertToRawStream(o, url, d.dataFile) # NoErr
               THEN StageResult(ProcessingPhaseError,
                                Wrap(FakeConvertToRawStream(o, url, d.dataFile), "Conversion to Raw failed"),
                                <<v, c>>)
               ELSE StageResult(ProcessingPhaseResize, NoErr, <<v, c>>)

\* ResizeImage without the refusal of a blank size.
ResizeImage_AcceptsBlank(o, dataFile, imageSize, totalTargetSpace) ==
  LET probe == ToolCall("Info", dataFile, 0)
      info == FakeInfo(o, dataFile)
      minSize == Min(totalTargetSpace, imageSize)
  IN  IF info.e # NoErr
        THEN [err |-> info.e, calls |-> <<probe>>]
        ELSE IF info.virtualSize = minSize
               THEN [err |-> NoErr, calls |-> <<probe>>]
               ELSE [err |-> FakeResize(o, dataFile, minSize),
                     calls |-> <<probe, ToolCall("Resize", dataFile, minSize)>>]

\* ResizeImage(dataFile, imageSize, totalTargetSpace): probe the image, refuse a
\* blank size, clamp to the available total, skip when already at the target.
ResizeImage(o, dataFile, imageSize, totalTargetSpace) ==
  LET probe == ToolCall("Info", dataFile, 0)
      info == FakeInfo(o, dataFile)
      minSize == Min(totalTargetSpace, imageSize)
  IN  IF info.e # NoErr
        THEN [err |-> info.e, calls |-> <<probe>>]
        ELSE IF imageSize = BlankSize
               THEN [err |-> NewErr("Image resize called with blank resize"), calls |-> <<probe>>]
               ELSE IF info.virtualSize = minSize
                      THEN [err |-> NoErr, calls |-> <<probe>>]
                      ELSE [err |-> FakeResize(o, dataFile, minSize),
                            calls |-> <<probe, ToolCall("Resize", dataFile, minSize)>>]

\* resize() that does not look at whether the data directory exists.
resize_IgnoresDataDir(d, o, dirExists) ==
  IF d.requestImageSize # BlankSize
    THEN LET r == ResizeImage(o, d.dataFile, d.requestImageSize, d.availableSpace)
         IN  IF r.err # NoErr
               THEN StageResult(ProcessingPhaseError,
                                Wrap(r.err, "Resize of image failed"), r.calls)
               ELSE StageResult(ProcessingPhaseComplete, NoErr, r.calls)
    ELSE StageResult(ProcessingPhaseComplete, NoErr, << >>)

\* resize(): only with a requested capacity and a filesystem-backed destination.
resize(d, o, dirExists) ==
  IF d.requestImageSize # BlankSize /\ dirExists
    THEN LET r == ResizeImage(o, d.dataFile, d.requestImageSize, d.availableSpace)
         IN  IF r.err # NoErr
               THEN StageResult(ProcessingPhaseError,
                                Wrap(r.err, "Resize of image failed"), r.calls)
               ELSE StageResult(ProcessingPhaseComplete, NoErr, r.calls)
    ELSE StageResult(ProcessingPhaseComplete, NoErr, << >>)

(* ------------------------------------------------------------------ *)
(* ProcessData(): the phase loop                                      *)
(* ------------------------------------------------------------------ *)

\* m.url of the mock, what GetURL() returns.
SourceURL == "http://fakeurl-notreal.fake"

Init ==
  /\ mdp \in { NewMockDataProvider(i, t, p, n) :
                 i \in PhaseValues, t \in PhaseValues, p \in PhaseValues, n \in BOOLEAN }
  /\ qemuOperations \in FakeQEMUOperationsSet
  /\ dp \in { NewDataProcessor(DestPath, DataDir, ScratchDataDir, r, a) :
                r \in RequestedSizes, a \in AvailableSpaces }
  /\ dataDirExists \in BOOLEAN
  /\ pc = "running"
  /\ ret = NoErr
  /\ dispatched = << >>
  /\ handlerErr = NoErr
  /\ qemuCalls = << >>
  /\ stage = NoStage
  /\ getAvailableSpaceBlockFunc = GetAvailableSpaceBlock
  /\ fsFree = dp.availableSpace
  /\ probeCalls = << >>
  /\ frames = << >>
  /\ panicking = FALSE
  /\ ended = NoneEnded
  /\ goroutines = NoGoroutines
  /\ request = NoRequest
  /\ response = NoResponse
  /\ sched = NoSched

\* The loop is inside the switch for phase `phase`.
InPhase(phase) ==
  /\ pc = "running"
  /\ dp.currentPhase = phase
  /\ Len(dispatched) < MaxDispatch

\* Iterate that logs a handler's error and carries on with the loop.
Iterate_ContinuesOnError(phase, reported, err) ==
  /\ dp' = [dp EXCEPT !.currentPhase = phase]
  /\ dispatched' = Append(dispatched, dp.currentPhase)
  /\ handlerErr' = reported
  /\ pc' = "running"
  /\ ret' = ret
  /\ UNCHANGED others

\* The end of one iteration: the handler's phase becomes the current phase and
\* a non-nil error is returned to the caller at once.
Iterate(phase, reported, err) ==
  /\ dp' = [dp EXCEPT !.currentPhase = phase]
  /\ dispatched' = Append(dispatched, dp.currentPhase)
  /\ handlerErr' = reported
  /\ IF err # NoErr
       THEN pc' = "done" /\ ret' = err
       ELSE pc' = "running" /\ ret' = ret
  /\ UNCHANGED others

\* case ProcessingPhaseInfo
PhaseInfo ==
  /\ InPhase(ProcessingPhaseInfo)
  /\ LET r == MockInfo(mdp)
     IN  /\ mdp' = r.m
         /\ Iterate(r.phase, r.err,
                    IF r.err # NoErr
                      THEN Wrap(r.err, "Unable to obtain information about data source")
                      ELSE NoErr)
  /\ UNCHANGED <<qemuOperations, dataDirExists, qemuCalls>>

\* case ProcessingPhaseTransferScratch
PhaseTransferScratch ==
  /\ InPhase(ProcessingPhaseTransferScratch)
  /\ LET r == MockTransfer(mdp, dp.scratchDataDir)
     IN  /\ mdp' = r.m
         /\ Iterate(r.phase, r.err,
                    IF r.err = ErrInvalidPath
                      THEN ErrRequiresScratchSpace
                      ELSE IF r.err # NoErr
                             THEN Wrap(r.err, "Unable to transfer source data to scratch space")
                             ELSE NoErr)
  /\ UNCHANGED <<qemuOperations, dataDirExists, qemuCalls>>

\* case ProcessingPhaseTransferDataDir
PhaseTransferDataDir ==
  /\ InPhase(ProcessingPhaseTransferDataDir)
  /\ LET r == MockTransfer(mdp, dp.dataDir)
     IN  /\ mdp' = r.m
         /\ Iterate(r.phase, r.err,
                    IF r.err # NoErr
                      THEN Wrap(r.err, "Unable to transfer source data to target directory")
                      ELSE NoErr)
  /\ UNCHANGED <<qemuOperations, dataDirExists, qemuCalls>>

\* case ProcessingPhaseTransferDataFile: a transfer that declares Complete is
\* validated once through the disk tooling before it is accepted.
PhaseTransferDataFile ==
  /\ InPhase(ProcessingPhaseTransferDataFile)
  /\ LET r == MockTransferFile(mdp, dp.dataFile)
         v == FakeValidate(qemuOperations, dp.dataFile, dp.availableSpace)
     IN  /\ mdp' = r.m
         /\ IF r.err # NoErr
              THEN /\ Iterate(r.phase, r.err, Wrap(r.err, "Unable to transfer source data to target file"))
                   /\ qemuCalls' = qemuCalls
              ELSE IF r.phase = ProcessingPhaseComplete
                     THEN /\ qemuCalls' = Append(qemuCalls,
                                ToolCall("Validate", dp.dataFile, dp.availableSpace))
                          /\ Iterate(r.phase, v,
                                     IF v # NoErr THEN Wrap(v, "Image validation failed")
                                                  ELSE NoErr)
                     ELSE /\ Iterate(r.phase, NoErr, NoErr)
                          /\ qemuCalls' = qemuCalls
  /\ UNCHANGED <<qemuOperations, dataDirExists>>

\* case ProcessingPhaseProcess
PhaseProcess ==
  /\ InPhase(ProcessingPhaseProcess)
  /\ LET r == MockProcess(mdp)
     IN  /\ mdp' = r.m
         /\ Iterate(r.phase, r.err,
                    IF r.err # NoErr THEN Wrap(r.err, "Unable to process data") ELSE NoErr)
  /\ UNCHANGED <<qemuOperations, dataDirExists, qemuCalls>>

\* case ProcessingPhaseConvert
PhaseConvert ==
  /\ InPhase(ProcessingPhaseConvert)
  /\ LET r == convert(dp, qemuOperations, SourceURL)
     IN  /\ qemuCalls' = qemuCalls \o r.calls
         /\ Iterate(r.phase, r.err,
                    IF r.err # NoErr
                      THEN Wrap(r.err, "Unable to convert source data to target format")
                      ELSE NoErr)
  /\ UNCHANGED <<mdp, qemuOperations, dataDirExists>>

\* case ProcessingPhaseResize
PhaseResize ==
  /\ InPhase(ProcessingPhaseResize)
  /\ LET r == resize(dp, qemuOperations, dataDirExists)
     IN  /\ qemuCalls' = qemuCalls \o r.calls
         /\ Iterate(r.phase, r.err,
                    IF r.err # NoErr
                      THEN Wrap(r.err, "Unable to resize disk image to requested size")
                      ELSE NoErr)
  /\ UNCHANGED <<mdp, qemuOperations, dataDirExists>>

\* The default branch leaving the loop without an error.
PhaseUnknown_ReturnsNil ==
  /\ pc = "running"
  /\ dp.currentPhase \notin HandledPhases \cup {ProcessingPhaseComplete}
  /\ pc' = "done"
  /\ ret' = NoErr
  /\ UNCHANGED <<mdp, qemuOperations, dp, dataDirExists, dispatched, handlerErr, qemuCalls>>
  /\ UNCHANGED others

\* default: the current phase has no handler.
PhaseUnknown ==
  /\ pc = "running"
  /\ dp.currentPhase \notin HandledPhases \cup {ProcessingPhaseComplete}
  /\ pc' = "done"
  /\ ret' = UnknownPhaseErr
  /\ UNCHANGED <<mdp, qemuOperations, dp, dataDirExists, dispatched, handlerErr, qemuCalls>>
  /\ UNCHANGED others

\* The loop condition fails: currentPhase is Complete and nil is returned.
PhaseComplete ==
  /\ pc = "running"
  /\ dp.currentPhase = ProcessingPhaseComplete
  /\ pc' = "done"
  /\ ret' = NoErr
  /\ UNCHANGED <<mdp, qemuOperations, dp, dataDirExists, dispatched, handlerErr, qemuCalls>>
  /\ UNCHANGED others

Next ==
  \/ PhaseInfo
  \/ PhaseTransferScratch
  \/ PhaseTransferDataDir
  \/ PhaseTransferDataFile
  \/ PhaseProcess
  \/ PhaseConvert
  \/ PhaseResize
  \/ PhaseUnknown
  \/ PhaseComplete

Spec == Init /\ [][Next]_vars

TypeOK ==
  /\ pc \in {"running", "done"}
  /\ dp.currentPhase \in PhaseValues
  /\ Len(dispatched) <= MaxDispatch
  /\ Len(mdp.calledPhases) <= MaxDispatch

(* ------------------------------------------------------------------ *)
(* Derived views of a run                                             *)
(* ------------------------------------------------------------------ *)

\* The phase whose handler ran last ("none" before the first dispatch).
LastDispatched == IF dispatched = << >> THEN "none" ELSE dispatched[Len(dispatched)]

IsProviderPhase(p) == p \in ProviderPhases

IsTransferPhase(p) == p \in TransferPhases

\* The dispatched phases whose handler is a provider call, in order.
ProviderDispatched == SelectSeq(dispatched, IsProviderPhase)

\* The dispatched phases that called Transfer(path), in order.
TransferDispatched == SelectSeq(dispatched, IsTransferPhase)

\* The phase transitions taken so far: one per handler that returned.
TransitionsTaken == Len(dispatched)

\* ProcessData() has returned.
Returned == pc = "done"

(* ------------------------------------------------------------------ *)
(* C1                                                                 *)
(* ------------------------------------------------------------------ *)

\* C1: ProcessData() returns nil only if the loop ended in phase Complete
\* with no handler error; a run that ends in phase Error, in an unrecognized
\* phase, or after a handler reported an error returns a non-nil error.
C1_NilOnlyOnComplete ==
  Returned =>
    /\ (ret = NoErr =>
          dp.currentPhase = ProcessingPhaseComplete /\ handlerErr = NoErr)
    /\ (dp.currentPhase = ProcessingPhaseError
          \/ dp.currentPhase \notin Phases
          \/ handlerErr # NoErr) => ret # NoErr

\* A run Info -> TransferScratch -> Process -> Complete that returned nil.
C1_Witness ==
  /\ Returned
  /\ ret = NoErr
  /\ dispatched = <<ProcessingPhaseInfo, ProcessingPhaseTransferScratch, ProcessingPhaseProcess>>

(* ------------------------------------------------------------------ *)
(* C2                                                                 *)
(* ------------------------------------------------------------------ *)

\* C2: in one ProcessData() run no phase is revisited: every phase's handler
\* is dispatched at most once, whatever next phases the provider declares.
C2_NoPhaseRevisited ==
  \A i, j \in 1..Len(dispatched) : i # j => dispatched[i] # dispatched[j]

(* ------------------------------------------------------------------ *)
(* C3                                                                 *)
(* ------------------------------------------------------------------ *)

\* C3: ProcessData() returns after at most as many handler calls as there
\* are enumerated phases (9): no run makes a tenth handler call.
C3_AtMostOneCallPerPhase == Len(dispatched) <= Cardinality(Phases)

(* ------------------------------------------------------------------ *)
(* C4                                                                 *)
(* ------------------------------------------------------------------ *)

\* C4 as stated: the number of provider calls recorded equals the number of
\* phase transitions taken, and the calls are recorded in the order the
\* phases were declared.
C4_CallsEqualTransitions ==
  /\ Len(mdp.calledPhases) = TransitionsTaken
  /\ \A i \in 1..Len(mdp.calledPhases) : mdp.calledPhases[i] = dispatched[i]

\* What the mock records for a call made in phase p: Transfer files its call
\* under the phase Info declared, every other call under its own phase.
RecordedAs(p) == IF p \in TransferPhases THEN mdp.infoResponse ELSE p

\* C4 amended: the number of provider calls recorded equals the number of
\* transitions taken out of provider-backed phases (Info, the transfer
\* phases, Process); Convert and Resize record no provider call.  The calls
\* are recorded in dispatch order, Info first, a Transfer call under the
\* phase that Info declared.
C4_CallsEqualProviderTransitions ==
  /\ Len(mdp.calledPhases) = Len(ProviderDispatched)
  /\ \A i \in 1..Len(ProviderDispatched) :
       mdp.calledPhases[i] = RecordedAs(ProviderDispatched[i])
  /\ (dispatched # << >> => mdp.calledPhases[1] = ProcessingPhaseInfo)

\* Info -> TransferScratch -> Process -> Convert -> Resize: five transitions,
\* three recorded provider calls.
C4_Witness ==
  /\ dispatched = <<ProcessingPhaseInfo, ProcessingPhaseTransferScratch, ProcessingPhaseProcess,
                    ProcessingPhaseConvert, ProcessingPhaseResize>>
  /\ mdp.calledPhases = <<ProcessingPhaseInfo, ProcessingPhaseTransferScratch, ProcessingPhaseProcess>>

(* ------------------------------------------------------------------ *)
(* C5                                                                 *)
(* ------------------------------------------------------------------ *)

\* The directory the loop hands to Transfer in a transfer phase.
PathOfPhase(p) ==
  IF p = ProcessingPhaseTransferScratch THEN dp.scratchDataDir ELSE dp.dataDir

\* C5: the path the provider's Transfer received is determined by the phase
\* it was called in: the scratch directory in TransferScratch, the working
\* data directory in TransferDataDir, never the other one.
C5_TransferPathByPhase ==
  /\ dp.scratchDataDir # dp.dataDir
  /\ IF TransferDispatched = << >>
       THEN mdp.transferPath = ""
       ELSE mdp.transferPath = PathOfPhase(TransferDispatched[Len(TransferDispatched)])
  /\ (LastDispatched = ProcessingPhaseTransferScratch =>
        mdp.transferPath = dp.scratchDataDir /\ mdp.transferPath # dp.dataDir)
  /\ (LastDispatched = ProcessingPhaseTransferDataDir =>
        mdp.transferPath = dp.dataDir /\ mdp.transferPath # dp.scratchDataDir)

\* Transfer ran in TransferScratch and then in TransferDataDir.
C5_Witness ==
  /\ dispatched = <<ProcessingPhaseInfo, ProcessingPhaseTransferScratch,
                    ProcessingPhaseTransferDataDir>>
  /\ mdp.transferPath = DataDir

(* ------------------------------------------------------------------ *)
(* C6                                                                 *)
(* ------------------------------------------------------------------ *)

\* The provider is set up to fail Transfer with ErrInvalidPath and the loop
\* has just called it in phase TransferScratch.
ScratchTransferFailed ==
  /\ LastDispatched = ProcessingPhaseTransferScratch
  /\ mdp.transferResponse = ProcessingPhaseError
  /\ mdp.needsScratch

\* C6 as stated: when Transfer fails with the invalid-transfer-path error in
\* phase TransferScratch, ProcessData() returns exactly the "scratch space
\* required" sentinel after exactly two recorded provider calls.
C6_SentinelAfterTwoCalls ==
  ScratchTransferFailed =>
    /\ Returned
    /\ ret = ErrRequiresScratchSpace
    /\ Len(mdp.calledPhases) = 2
    /\ mdp.calledPhases[1] = ProcessingPhaseInfo

\* C6 amended: when Transfer fails with the invalid-transfer-path error in
\* phase TransferScratch, ProcessData() returns exactly the "scratch space
\* required" sentinel and the failing Transfer is the last provider call;
\* exactly two calls (Info, then the failing Transfer) are recorded when Info
\* itself declared TransferScratch, and three when Process declared it.
C6_SentinelStopsAtTransfer ==
  ScratchTransferFailed =>
    /\ Returned
    /\ handlerErr = ErrInvalidPath
    /\ ret = ErrRequiresScratchSpace
    /\ qemuCalls = << >>
    /\ IF mdp.infoResponse = ProcessingPhaseTransferScratch
         THEN /\ dispatched = <<ProcessingPhaseInfo, ProcessingPhaseTransferScratch>>
              /\ mdp.calledPhases = <<ProcessingPhaseInfo, ProcessingPhaseTransferScratch>>
         ELSE /\ dispatched = <<ProcessingPhaseInfo, ProcessingPhaseProcess,
                                ProcessingPhaseTransferScratch>>
              /\ Len(mdp.calledPhases) = 3

\* The run of the test "should error on Transfer phase if scratch space is
\* required" after it returned.
C6_Witness ==
  /\ ScratchTransferFailed
  /\ Returned
  /\ ret = ErrRequiresScratchSpace
  /\ mdp.calledPhases = <<ProcessingPhaseInfo, ProcessingPhaseTransferScratch>>

(* ------------------------------------------------------------------ *)
(* C7                                                                 *)
(* ------------------------------------------------------------------ *)

\* C7: when a handler returns, without an error, a phase outside the
\* enumeration, ProcessData() returns the "unknown phase" error and no
\* provider or disk-tooling call is made any more; an unrecognized answer of
\* Info ends the run after exactly one recorded call.
C7_UnknownPhaseFails ==
  /\ [](( Returned /\ handlerErr = NoErr /\ dp.currentPhase \notin Phases ) =>
          ret = UnknownPhaseErr)
  /\ []( ( Returned /\ mdp.infoResponse \notin Phases ) =>
          /\ ret = UnknownPhaseErr
          /\ mdp.calledPhases = <<ProcessingPhaseInfo>>
          /\ qemuCalls = << >> )
  /\ [][ dp.currentPhase \notin Phases =>
           /\ mdp' = mdp
           /\ qemuCalls' = qemuCalls
           /\ dispatched' = dispatched
           /\ Returned' ]_vars

\* The run of the test "should error on Unknown phase" after it returned.
C7_Witness ==
  /\ Returned
  /\ mdp.infoResponse = InvalidPhase
  /\ dp.currentPhase = InvalidPhase
  /\ ret = UnknownPhaseErr
  /\ mdp.calledPhases = <<ProcessingPhaseInfo>>

(* ------------------------------------------------------------------ *)
(* C8                                                                 *)
(* ------------------------------------------------------------------ *)

\* The canned result of the disk-tooling operation a recorded call invoked.
FakeResultOf(call) ==
  CASE call.op = "Validate" -> FakeValidate(qemuOperations, call.target, call.size)
    [] call.op = "ConvertToRawStream" -> FakeConvertToRawStream(qemuOperations, call.target, DataFile)
    [] call.op = "Resize" -> FakeResize(qemuOperations, call.target, call.size)
    [] call.op = "Info" -> FakeInfo(qemuOperations, call.target).e

\* The failing call of a failed handler is the last call made: a failed
\* provider call is followed by no tooling call, a failed tooling call is the
\* last tooling call and every tooling call before it succeeded.
FailingCallIsLast ==
  /\ Len(mdp.calledPhases) = Len(ProviderDispatched)
  /\ IF qemuCalls = << >>
       THEN LastDispatched \in ProviderPhases
       ELSE /\ FakeResultOf(qemuCalls[Len(qemuCalls)]) # NoErr
            /\ Cause(FakeResultOf(qemuCalls[Len(qemuCalls)])) = Cause(handlerErr)
            /\ \A i \in 1..(Len(qemuCalls) - 1) : FakeResultOf(qemuCalls[i]) = NoErr

\* The loop has just called Transfer in TransferScratch and the provider
\* answered ErrInvalidPath.
InvalidScratchPath ==
  /\ LastDispatched = ProcessingPhaseTransferScratch
  /\ handlerErr = ErrInvalidPath

\* C8 as stated: as soon as a handler reports an error, ProcessData() has
\* returned a non-nil error that carries that error as its cause.
C8_FailFastCarriesCause ==
  handlerErr # NoErr =>
    /\ Returned
    /\ ret # NoErr
    /\ Cause(ret) = Cause(handlerErr)

\* C8 amended: as soon as a handler reports an error, ProcessData() returns
\* a non-nil error and invokes no provider or disk-tooling operation after
\* the failing one (a failing Transfer or TransferFile that Info declared
\* ends the run after exactly two recorded provider calls).  The returned
\* error carries the handler's error as its cause, except that the
\* invalid-transfer-path error of a Transfer in phase TransferScratch is
\* replaced by the "scratch space required" sentinel.
C8_FailFast ==
  /\ [](handlerErr # NoErr =>
          /\ Returned
          /\ ret # NoErr
          /\ IF InvalidScratchPath
               THEN ret = ErrRequiresScratchSpace
               ELSE Cause(ret) = Cause(handlerErr) /\ Mentions(ret, Cause(handlerErr))
          /\ FailingCallIsLast
          /\ ( ( mdp.infoResponse \in TransferPhases \cup {ProcessingPhaseTransferDataFile}
                 /\ mdp.transferResponse = ProcessingPhaseError ) =>
                 Len(mdp.calledPhases) = 2 ))
  /\ [][ Returned => (mdp' = mdp /\ qemuCalls' = qemuCalls /\ ret' = ret) ]_vars

\* A failing conversion: Validate succeeded, ConvertToRawStream failed, and
\* ProcessData() returned its error.
C8_Witness ==
  /\ Returned
  /\ LastDispatched = ProcessingPhaseConvert
  /\ qemuOperations.e2 = NewErr("Conversion failure")
  /\ Cause(handlerErr) = "Conversion failure"
  /\ Cause(ret) = "Conversion failure"
  /\ Len(qemuCalls) = 2

(* ------------------------------------------------------------------ *)
(* C9                                                                 *)
(* ------------------------------------------------------------------ *)

\* The loop has just called TransferFile in phase TransferDataFile and the
\* provider answered (Complete, nil).
TransferFileCompleted ==
  /\ LastDispatched = ProcessingPhaseTransferDataFile
  /\ mdp.transferResponse = ProcessingPhaseComplete

\* The one validation call made after the transfer, and its outcome.
ValidatedOnce ==
  /\ qemuCalls = <<ToolCall("Validate", dp.dataFile, dp.availableSpace)>>
  /\ IF qemuOperations.e5 = NoErr
       THEN Returned => ret = NoErr
       ELSE /\ Returned
            /\ Mentions(ret, "Image validation failed")
            /\ Cause(ret) = Cause(qemuOperations.e5)

\* C9 as stated: a TransferFile that succeeds and declares Complete is
\* followed by exactly one disk-tooling validation call; ProcessData()
\* returns nil if it succeeds and "image validation failed" if it fails, and
\* in both cases exactly two provider calls (Info, TransferFile) are recorded.
C9_ValidateOnceTwoCalls ==
  TransferFileCompleted =>
    /\ ValidatedOnce
    /\ mdp.calledPhases = <<ProcessingPhaseInfo, ProcessingPhaseTransferDataFile>>

\* C9 amended: a TransferFile that succeeds and declares Complete is followed
\* by exactly one disk-tooling validation call; ProcessData() returns nil if
\* it succeeds and "image validation failed" if it fails.  Exactly two
\* provider calls (Info, TransferFile) are recorded when Info itself declared
\* TransferDataFile, and three (Info, Process, TransferFile) when Process
\* declared it.
C9_ValidateOnce ==
  TransferFileCompleted =>
    /\ ValidatedOnce
    /\ IF mdp.infoResponse = ProcessingPhaseTransferDataFile
         THEN mdp.calledPhases = <<ProcessingPhaseInfo, ProcessingPhaseTransferDataFile>>
         ELSE mdp.calledPhases = <<ProcessingPhaseInfo, ProcessingPhaseProcess,
                                   ProcessingPhaseTransferDataFile>>

\* The run of the test "should fail when validate fails for
\* TransferDataFile" after it returned.
C9_Witness ==
  /\ TransferFileCompleted
  /\ Returned
  /\ Mentions(ret, "Image validation failed")
  /\ mdp.calledPhases = <<ProcessingPhaseInfo, ProcessingPhaseTransferDataFile>>
  /\ Len(qemuCalls) = 1

(* ------------------------------------------------------------------ *)
(* C10                                                                *)
(* ------------------------------------------------------------------ *)

\* C10: in the Convert stage the validate operation is called first, with
\* the job's available-capacity estimate; the convert operation is only ever
\* invoked right after a validation that succeeded, and when validation
\* fails the stage returns phase Error.
C10_ValidateBeforeConvert ==
  /\ \A i \in 1..Len(qemuCalls) :
       qemuCalls[i].op = "ConvertToRawStream" =>
         /\ i > 1
         /\ qemuCalls[i - 1] = ToolCall("Validate", SourceURL, dp.availableSpace)
         /\ qemuOperations.e5 = NoErr
  /\ LastDispatched = ProcessingPhaseConvert =>
       /\ qemuCalls[1] = ToolCall("Validate", SourceURL, dp.availableSpace)
       /\ IF qemuOperations.e5 # NoErr
            THEN /\ qemuCalls = <<ToolCall("Validate", SourceURL, dp.availableSpace)>>
                 /\ dp.currentPhase = ProcessingPhaseError
                 /\ handlerErr # NoErr
            ELSE /\ Len(qemuCalls) = 2
                 /\ qemuCalls[2].op = "ConvertToRawStream"

\* The Convert stage ran, validation failed and nothing was converted.
C10_Witness ==
  /\ LastDispatched = ProcessingPhaseConvert
  /\ qemuOperations.e5 # NoErr
  /\ qemuOperations.e2 = NoErr
  /\ dp.currentPhase = ProcessingPhaseError
  /\ qemuCalls = <<ToolCall("Validate", SourceURL, dp.availableSpace)>>

(* ------------------------------------------------------------------ *)
(* The stages called directly: convert(), resize(), ResizeImage()     *)
(* ------------------------------------------------------------------ *)

\* Largest capacity (requested, available, logical) the stages are called with.
MaxSize == 3

\* The capacities of the direct calls; BlankSize stands for "".
Sizes == 0..MaxSize

\* The fakes the Convert, Resize and ResizeImage tests install.
StageFakes ==
  { NewFakeQEMUOperations(e2, e3, FakeInfoOpRetVal(v, e4), e5) :
      e2 \in {NoErr, NewErr("Conversion failure")},
      e3 \in {NoErr, NewErr("Resize failure")},
      v \in Sizes,
      e4 \in {NoErr, NewErr("Info failure")},
      e5 \in {NoErr, NewErr("Validation failure")} }

\* A test of a stage: a mock with a url, a fake adapter, a DataProcessor,
\* and no ProcessData() loop.
StageInit ==
  /\ mdp = NewMockDataProvider(ProcessingPhaseInfo, ProcessingPhaseInfo,
                               ProcessingPhaseInfo, FALSE)
  /\ qemuOperations \in StageFakes
  /\ dp \in { NewDataProcessor(DestPath, DataDir, ScratchDataDir, r, a) :
                r \in Sizes, a \in Sizes }
  /\ dataDirExists \in BOOLEAN
  /\ pc = "idle"
  /\ ret = NoErr
  /\ dispatched = << >>
  /\ handlerErr = NoErr
  /\ qemuCalls = << >>
  /\ stage = NoStage
  /\ getAvailableSpaceBlockFunc = GetAvailableSpaceBlock
  /\ fsFree = dp.availableSpace
  /\ probeCalls = << >>
  /\ frames = << >>
  /\ panicking = FALSE
  /\ ended = NoneEnded
  /\ goroutines = NoGoroutines
  /\ request = NoRequest
  /\ response = NoResponse
  /\ sched = NoSched

\* The record of a direct call and of what it returned.
StageCall(fn, imageSize, totalSpace, phase, err, calls) ==
  [fn |-> fn, imageSize |-> imageSize, totalSpace |-> totalSpace,
   phase |-> phase, err |-> err, calls |-> calls]

\* nextPhase, err := dp.convert(mdp.GetURL())
CallConvert ==
  /\ stage = NoStage
  /\ LET r == convert(dp, qemuOperations, SourceURL)
     IN  stage' = StageCall("convert", dp.requestImageSize, dp.availableSpace,
                            r.phase, r.err, r.calls)
  /\ UNCHANGED <<engineVars, estimatorVars, overrideVars, sched, webhookVars>>

\* nextPhase, err := dp.resize()
CallResize ==
  /\ stage = NoStage
  /\ LET r == resize(dp, qemuOperations, dataDirExists)
     IN  stage' = StageCall("resize", dp.requestImageSize, dp.availableSpace,
                            r.phase, r.err, r.calls)
  /\ UNCHANGED <<engineVars, estimatorVars, overrideVars, sched, webhookVars>>

\* err := ResizeImage("dest", imageSize, totalSpace)
CallResizeImage ==
  /\ stage = NoStage
  /\ \E imageSize \in Sizes, totalSpace \in Sizes :
       LET r == ResizeImage(qemuOperations, DestPath, imageSize, totalSpace)
       IN  stage' = StageCall("ResizeImage", imageSize, totalSpace, "none", r.err, r.calls)
  /\ UNCHANGED <<engineVars, estimatorVars, overrideVars, sched, webhookVars>>

StageNext ==
  \/ CallConvert
  \/ CallResize
  \/ CallResizeImage

StageSpec == StageInit /\ [][StageNext]_vars

\* The direct call invoked the disk-tooling operation op.
StageInvoked(op) == \E i \in 1..Len(stage.calls) : stage.calls[i].op = op

(* ------------------------------------------------------------------ *)
(* C11                                                                *)
(* ------------------------------------------------------------------ *)

\* C11: convert(source) returns (Resize, nil) if and only if both Validate
\* and ConvertToRawStream succeed, and (Error, non-nil) if either fails; the
\* probe (Info) is not consulted, so its result does not matter.
C11_ConvertOutcome ==
  stage.fn = "convert" =>
    /\ ( (stage.phase = ProcessingPhaseResize /\ stage.err = NoErr)
           <=> (qemuOperations.e5 = NoErr /\ qemuOperations.e2 = NoErr) )
    /\ ( (stage.phase = ProcessingPhaseError /\ stage.err # NoErr)
           <=> (qemuOperations.e5 # NoErr \/ qemuOperations.e2 # NoErr) )
    /\ stage.phase \in {ProcessingPhaseResize, ProcessingPhaseError}
    /\ ~StageInvoked("Info")

\* convert() succeeded under a fake whose Info fails (the test "Should
\* successfully convert and return resize").
C11_Witness ==
  /\ stage.fn = "convert"
  /\ qemuOperations.ret4.e # NoErr
  /\ stage.phase = ProcessingPhaseResize
  /\ stage.err = NoErr

(* ------------------------------------------------------------------ *)
(* C12                                                                *)
(* ------------------------------------------------------------------ *)

\* C12: resize() returns (Complete, nil) and invokes no disk-tooling
\* operation when the requested capacity is blank, and also when the data
\* directory does not exist, whatever capacity was requested.
C12_ResizeNoOp ==
  ( stage.fn = "resize" /\ (dp.requestImageSize = BlankSize \/ ~dataDirExists) ) =>
    /\ stage.phase = ProcessingPhaseComplete
    /\ stage.err = NoErr
    /\ stage.calls = << >>

\* resize() on a block-device destination with a capacity requested and a
\* fake whose Info and Resize would both fail.
C12_Witness ==
  /\ stage.fn = "resize"
  /\ dp.requestImageSize # BlankSize
  /\ ~dataDirExists
  /\ qemuOperations.ret4.e # NoErr
  /\ qemuOperations.e3 # NoErr
  /\ stage.phase = ProcessingPhaseComplete
  /\ stage.calls = << >>

(* ------------------------------------------------------------------ *)
(* C13                                                                *)
(* ------------------------------------------------------------------ *)

\* C13: with the data directory present and a capacity requested, a resize()
\* whose disk-tooling Resize call succeeds returns (Complete, nil), and one
\* whose Resize call fails returns (Error, non-nil) with that failure as cause.
C13_ResizeFollowsTooling ==
  ( stage.fn = "resize" /\ dataDirExists /\ dp.requestImageSize # BlankSize ) =>
    /\ stage.phase \in {ProcessingPhaseComplete, ProcessingPhaseError}
    /\ ( StageInvoked("Resize") /\ qemuOperations.e3 = NoErr ) =>
         ( stage.phase = ProcessingPhaseComplete /\ stage.err = NoErr )
    /\ ( StageInvoked("Resize") /\ qemuOperations.e3 # NoErr ) =>
         /\ stage.phase = ProcessingPhaseError
         /\ stage.err # NoErr
         /\ Cause(stage.err) = Cause(qemuOperations.e3)
    /\ ( qemuOperations.ret4.e = NoErr
         /\ qemuOperations.ret4.virtualSize # Min(dp.availableSpace, dp.requestImageSize) ) =>
         StageInvoked("Resize")

\* resize() whose Resize call failed.
C13_Witness ==
  /\ stage.fn = "resize"
  /\ dataDirExists
  /\ dp.requestImageSize # BlankSize
  /\ StageInvoked("Resize")
  /\ qemuOperations.e3 # NoErr
  /\ stage.phase = ProcessingPhaseError

(* ------------------------------------------------------------------ *)
(* C14                                                                *)
(* ------------------------------------------------------------------ *)

\* C14: ResizeImage() called with a blank imageSize returns an error and
\* invokes no Resize, whatever Info and Resize would answer.
C14_BlankSizeRefused ==
  ( stage.fn = "ResizeImage" /\ stage.imageSize = BlankSize ) =>
    /\ stage.err # NoErr
    /\ ~StageInvoked("Resize")

\* A blank imageSize refused under a fake whose Info and Resize succeed.
C14_Witness ==
  /\ stage.fn = "ResizeImage"
  /\ stage.imageSize = BlankSize
  /\ qemuOperations.ret4.e = NoErr
  /\ qemuOperations.e3 = NoErr
  /\ stage.err # NoErr

(* ------------------------------------------------------------------ *)
(* C15                                                                *)
(* ------------------------------------------------------------------ *)

\* C15: whenever ResizeImage() invokes Resize, the target it passes is the
\* requested imageSize if that does not exceed totalSpace, and totalSpace
\* otherwise.
C15_ResizeTargetClamped ==
  \A i \in 1..Len(stage.calls) :
    stage.calls[i].op = "Resize" =>
      stage.calls[i].size =
        (IF stage.imageSize <= stage.totalSpace THEN stage.imageSize ELSE stage.totalSpace)

\* Resize invoked with totalSpace because more than that was requested.
C15_Witness ==
  /\ stage.fn = "ResizeImage"
  /\ stage.imageSize > stage.totalSpace
  /\ \E i \in 1..Len(stage.calls) :
       stage.calls[i].op = "Resize" /\ stage.calls[i].size = stage.totalSpace

(* ------------------------------------------------------------------ *)
(* C16                                                                *)
(* ------------------------------------------------------------------ *)

\* The probe succeeded and reported a logical size equal to the clamped target.
AlreadyAtTarget ==
  /\ stage.imageSize # BlankSize
  /\ qemuOperations.ret4.e = NoErr
  /\ qemuOperations.ret4.virtualSize =
       (IF stage.imageSize <= stage.totalSpace THEN stage.imageSize ELSE stage.totalSpace)

\* C16: when the logical size the probe reports already equals the lesser of
\* the requested imageSize and totalSpace, ResizeImage() returns nil and
\* invokes Resize zero times.
C16_NoOpAtTarget ==
  ( stage.fn = "ResizeImage" /\ AlreadyAtTarget ) =>
    /\ stage.err = NoErr
    /\ ~StageInvoked("Resize")

\* ResizeImage() did nothing although more than totalSpace was requested and
\* Resize would have failed.
C16_Witness ==
  /\ stage.fn = "ResizeImage"
  /\ AlreadyAtTarget
  /\ stage.imageSize > stage.totalSpace
  /\ qemuOperations.e3 # NoErr
  /\ stage.err = NoErr
  /\ stage.calls = <<ToolCall("Info", DestPath, 0)>>

(* ------------------------------------------------------------------ *)
(* The available-capacity estimator                                   *)
(* ------------------------------------------------------------------ *)

\* What a func(string) int64 hands back for a device it cannot read: it has
\* no error result, so it is some number.
FailedProbeResults == {-1, 0}

\* The numbers a call of the probe may return.
ProbeResults(probe, path) ==
  IF probe.canRead THEN {probe.bytes} ELSE FailedProbeResults

\* The estimator handing the probe the data directory.
calculateTargetSize_ProbesDataDir(d, dirExists, free, bytes) ==
  IF dirExists
    THEN [availableSpace |-> free, probed |-> << >>]
    ELSE [availableSpace |-> bytes, probed |-> <<d.dataDir>>]

\* calculateTargetSize(): free space of the filesystem when the data directory
\* exists, the block-device probe on the destination otherwise; `bytes` is
\* what the probe returns if it is called.
calculateTargetSize(d, dirExists, free, bytes) ==
  IF dirExists
    THEN [availableSpace |-> free, probed |-> << >>]
    ELSE [availableSpace |-> bytes, probed |-> <<d.dest>>]

\* The providers of the estimator's jobs.
EstimatorProviders ==
  { NewMockDataProvider(i, t, p, FALSE) :
      i \in PhaseValues,
      t \in {ProcessingPhaseProcess, ProcessingPhaseComplete, ProcessingPhaseError},
      p \in {ProcessingPhaseConvert, ProcessingPhaseComplete} }

\* A job about to be constructed: no estimate has been computed yet.
EstimatorInit ==
  /\ mdp \in EstimatorProviders
  /\ qemuOperations \in
       { NewFakeQEMUOperations(NoErr, NoErr, FakeInfoOpRetVal(SmallVirtualSize, NoErr), NoErr),
         NewFakeQEMUOperations(NewErr("Conversion failure"), NewErr("Resize failure"),
                               FakeInfoOpRetVal(SmallVirtualSize, NewErr("Info failure")),
                               NewErr("Validation failure")) }
  /\ dp \in { NewDataProcessor(DestPath, DataDir, ScratchDataDir, r, 0) : r \in RequestedSizes }
  /\ dataDirExists \in BOOLEAN
  /\ pc = "new"
  /\ ret = NoErr
  /\ dispatched = << >>
  /\ handlerErr = NoErr
  /\ qemuCalls = << >>
  /\ stage = NoStage
  /\ getAvailableSpaceBlockFunc \in
       { NewProbe(n, BlockDeviceBytes, c) :
           n \in {"util.GetAvailableSpaceBlock", "replacement"}, c \in BOOLEAN }
  /\ fsFree \in AvailableSpaces
  /\ probeCalls = << >>
  /\ frames = << >>
  /\ panicking = FALSE
  /\ ended = NoneEnded
  /\ goroutines = NoGoroutines
  /\ request = NoRequest
  /\ response = NoResponse
  /\ sched = NoSched

\* dp.availableSpace = dp.calculateTargetSize(), in NewDataProcessor().
Construct ==
  /\ pc = "new"
  /\ \E bytes \in ProbeResults(getAvailableSpaceBlockFunc, dp.dest) :
       LET r == calculateTargetSize(dp, dataDirExists, fsFree, bytes)
       IN  /\ dp' = [dp EXCEPT !.availableSpace = r.availableSpace]
           /\ probeCalls' = probeCalls \o r.probed
  /\ pc' = "running"
  /\ UNCHANGED <<mdp, qemuOperations, dataDirExists, ret, dispatched, handlerErr, qemuCalls>>
  /\ UNCHANGED <<stage, getAvailableSpaceBlockFunc, fsFree, overrideVars, sched, webhookVars>>

EstimatorNext ==
  \/ Construct
  \/ Next

EstimatorSpec == EstimatorInit /\ [][EstimatorNext]_vars

(* ------------------------------------------------------------------ *)
(* C17                                                                *)
(* ------------------------------------------------------------------ *)

\* C17: the estimator calls the block-device probe only when the data
\* directory does not exist, and then once with the job's destination path,
\* which is neither the data nor the scratch directory; when the data
\* directory exists the probe is not called and the estimate is the
\* filesystem's free space.
C17_ProbeOnlyForBlockDevice ==
  /\ pc = "new" => probeCalls = << >>
  /\ (pc # "new" /\ dataDirExists) =>
       /\ probeCalls = << >>
       /\ dp.availableSpace = fsFree
  /\ (pc # "new" /\ ~dataDirExists) =>
       /\ probeCalls = <<dp.dest>>
       /\ dp.dest \notin {dp.dataDir, dp.scratchDataDir}
       /\ dp.availableSpace \in ProbeResults(getAvailableSpaceBlockFunc, dp.dest)

\* A job on a block device whose estimate is what the probe answered for "dest".
C17_Witness ==
  /\ pc = "done"
  /\ ~dataDirExists
  /\ probeCalls = <<DestPath>>
  /\ getAvailableSpaceBlockFunc.canRead
  /\ dp.availableSpace = BlockDeviceBytes

(* ------------------------------------------------------------------ *)
(* C18                                                                *)
(* ------------------------------------------------------------------ *)

\* The probe was called and could not read the destination.
ProbeFailed ==
  /\ probeCalls # << >>
  /\ ~getAvailableSpaceBlockFunc.canRead

\* C18: a job whose capacity probe could not read the destination returns a
\* non-nil error from ProcessData().
C18_ProbeFailureFailsJob ==
  (ProbeFailed /\ Returned) => ret # NoErr

(* ------------------------------------------------------------------ *)
(* replaceQEMUOperations() and replaceAvailableSpaceBlockFunc()       *)
(* ------------------------------------------------------------------ *)

\* How deep the replace...() calls nest.
MaxDepth == 3

\* qemuOperations before any test replaced it.
ProductionQEMUOperations == [name |-> "image.NewQEMUOperations"]

\* A nil image.QEMUOperations.
NilQEMUOperations == [name |-> "nil"]

\* The adapters a test hands to replaceQEMUOperations().
QEMUReplacements ==
  { NilQEMUOperations,
    NewFakeQEMUOperations(NoErr, NoErr, FakeInfoOpRetVal(SmallVirtualSize, NoErr), NoErr),
    NewFakeQEMUOperations(NewErr("Conversion failure"), NewErr("Resize failure"),
                          FakeInfoOpRetVal(SmallVirtualSize, NewErr("Info failure")),
                          NewErr("Validation failure")) }

\* The probes a test hands to replaceAvailableSpaceBlockFunc().
ProbeReplacements ==
  { NewProbe("replacement", BlockDeviceBytes, TRUE),
    NewProbe("replacement", BlockDeviceBytes, FALSE) }

\* The two globals, as a replace...() call finds them.
Globals == <<qemuOperations, getAvailableSpaceBlockFunc>>

\* A test with nothing replaced.
OverrideInit ==
  /\ mdp = NewMockDataProvider(ProcessingPhaseInfo, ProcessingPhaseInfo,
                               ProcessingPhaseInfo, FALSE)
  /\ qemuOperations = ProductionQEMUOperations
  /\ dp = NewDataProcessor(DestPath, DataDir, ScratchDataDir, BlankSize, SmallVirtualSize)
  /\ dataDirExists = FALSE
  /\ pc = "idle"
  /\ ret = NoErr
  /\ dispatched = << >>
  /\ handlerErr = NoErr
  /\ qemuCalls = << >>
  /\ stage = NoStage
  /\ getAvailableSpaceBlockFunc = GetAvailableSpaceBlock
  /\ fsFree = dp.availableSpace
  /\ probeCalls = << >>
  /\ frames = << >>
  /\ panicking = FALSE
  /\ ended = NoneEnded
  /\ goroutines = NoGoroutines
  /\ request = NoRequest
  /\ response = NoResponse
  /\ sched = NoSched

\* The locals of a replace...() call that has reached f(): orig, the
\* replacement, whether a restore was deferred, and the globals at entry.
Frame(fn, orig, replacement, deferred) ==
  [fn |-> fn, orig |-> orig, replacement |-> replacement, deferred |-> deferred,
   entry |-> Globals]

\* The frame whose f() is running.
Top == frames[Len(frames)]

\* The part of a replace...() call that no action here changes.
OverrideFrame ==
  UNCHANGED <<mdp, dp, dataDirExists, pc, ret, dispatched, handlerErr, qemuCalls,
              stage, fsFree, probeCalls, sched, goroutines, webhookVars>>

\* replaceQEMUOperations(replacement, f) up to the call of f(): a nil
\* replacement installs nothing and defers nothing.
replaceQEMUOperations(replacement) ==
  /\ ~panicking
  /\ Len(frames) < MaxDepth
  /\ frames' = Append(frames, Frame("replaceQEMUOperations", qemuOperations, replacement,
                                    replacement # NilQEMUOperations))
  /\ qemuOperations' = IF replacement # NilQEMUOperations THEN replacement ELSE qemuOperations
  /\ UNCHANGED <<getAvailableSpaceBlockFunc, panicking, ended>>
  /\ OverrideFrame

\* replaceAvailableSpaceBlockFunc(replacement, f) up to the call of f().
replaceAvailableSpaceBlockFunc(replacement) ==
  /\ ~panicking
  /\ Len(frames) < MaxDepth
  /\ frames' = Append(frames, Frame("replaceAvailableSpaceBlockFunc",
                                    getAvailableSpaceBlockFunc, replacement, TRUE))
  /\ getAvailableSpaceBlockFunc' = replacement
  /\ UNCHANGED <<qemuOperations, panicking, ended>>
  /\ OverrideFrame

\* The innermost call ends and its deferred function does not run.
EndCall_SkipsDeferred(how) ==
  /\ frames # << >>
  /\ frames' = SubSeq(frames, 1, Len(frames) - 1)
  /\ ended' = [how |-> how, frame |-> Top]
  /\ UNCHANGED <<qemuOperations, getAvailableSpaceBlockFunc>>

\* The innermost call ends: its deferred function, if any, assigns orig back.
EndCall(how) ==
  /\ frames # << >>
  /\ frames' = SubSeq(frames, 1, Len(frames) - 1)
  /\ ended' = [how |-> how, frame |-> Top]
  /\ IF Top.deferred /\ Top.fn = "replaceQEMUOperations"
       THEN qemuOperations' = Top.orig
       ELSE qemuOperations' = qemuOperations
  /\ IF Top.deferred /\ Top.fn = "replaceAvailableSpaceBlockFunc"
       THEN getAvailableSpaceBlockFunc' = Top.orig
       ELSE getAvailableSpaceBlockFunc' = getAvailableSpaceBlockFunc

\* f() returns and the call returns after it.
FReturns ==
  /\ ~panicking
  /\ EndCall("return")
  /\ UNCHANGED panicking
  /\ OverrideFrame

\* f() panics (a failed Expect, a nil dereference).
FPanics ==
  /\ ~panicking
  /\ frames # << >>
  /\ panicking' = TRUE
  /\ UNCHANGED <<qemuOperations, getAvailableSpaceBlockFunc, frames, ended>>
  /\ OverrideFrame

\* The panic leaves the innermost call.
Unwind ==
  /\ panicking
  /\ EndCall("panic")
  /\ UNCHANGED panicking
  /\ OverrideFrame

\* The test runner recovers the panic of a test body.
Recovered ==
  /\ panicking
  /\ frames = << >>
  /\ panicking' = FALSE
  /\ UNCHANGED <<qemuOperations, getAvailableSpaceBlockFunc, frames, ended>>
  /\ OverrideFrame

OverrideNext ==
  \/ \E replacement \in QEMUReplacements : replaceQEMUOperations(replacement)
  \/ \E replacement \in ProbeReplacements : replaceAvailableSpaceBlockFunc(replacement)
  \/ FReturns
  \/ FPanics
  \/ Unwind
  \/ Recovered

OverrideSpec == OverrideInit /\ [][OverrideNext]_vars

(* ------------------------------------------------------------------ *)
(* C19                                                                *)
(* ------------------------------------------------------------------ *)

\* The global that the call of frame fr is about.
GlobalOf(fr) ==
  IF fr.fn = "replaceQEMUOperations" THEN qemuOperations ELSE getAvailableSpaceBlockFunc

\* C19 as stated: while f() of the innermost replace...() call runs, the
\* global refers to that call's replacement.
C19_ReplacementInForce ==
  (frames # << >> /\ ~panicking) => GlobalOf(Top) = Top.replacement

\* While f() runs the global is the replacement, or, for a nil adapter, what
\* it was before the call.
ReplacementOrNil ==
  (frames # << >> /\ ~panicking) =>
    IF Top.replacement = NilQEMUOperations
      THEN GlobalOf(Top) = Top.entry[1]
      ELSE GlobalOf(Top) = Top.replacement

\* A step that ends a replace...() call leaves both globals as the call
\* found them.
EndRestores ==
  Len(frames') < Len(frames) => Globals' = Top.entry

\* C19: during f() the global refers to the replacement, unless the
\* replacement is a nil adapter, which replaceQEMUOperations() does not
\* install; and when a replace...() call ends, by return or by panic, nested
\* or not, both globals are again what they were before the call.
C19_ScopedOverride == []ReplacementOrNil /\ [][EndRestores]_vars

\* A panic has left a nested replaceQEMUOperations() call and the adapter of
\* the enclosing call is in force again.
C19_Witness ==
  /\ panicking
  /\ ended.how = "panic"
  /\ ended.frame.fn = "replaceQEMUOperations"
  /\ ended.frame.replacement # NilQEMUOperations
  /\ Len(frames) = 1
  /\ Top.fn = "replaceQEMUOperations"
  /\ Top.replacement \notin {NilQEMUOperations, ended.frame.replacement}
  /\ qemuOperations = Top.replacement

(* ------------------------------------------------------------------ *)
(* Two import jobs at once                                            *)
(* ------------------------------------------------------------------ *)

\* One job: its provider, its DataProcessor, its data directory, and how far
\* its ProcessData() has come.
NewJob(m, d, dirExists) ==
  [mdp |-> m, dp |-> d, dataDirExists |-> dirExists, pc |-> "running", ret |-> NoErr,
   dispatched |-> << >>, handlerErr |-> NoErr, qemuCalls |-> << >>]

\* The job that is running.
JobView ==
  [mdp |-> mdp, dp |-> dp, dataDirExists |-> dataDirExists, pc |-> pc, ret |-> ret,
   dispatched |-> dispatched, handlerErr |-> handlerErr, qemuCalls |-> qemuCalls]

\* The end of one iteration of job j's loop.
IterateJob(j, m, phase, reported, err, calls) ==
  [j EXCEPT !.mdp = m,
            !.dp.currentPhase = phase,
            !.dispatched = Append(@, j.dp.currentPhase),
            !.handlerErr = reported,
            !.qemuCalls = @ \o calls,
            !.pc = IF err # NoErr THEN "done" ELSE "running",
            !.ret = IF err # NoErr THEN err ELSE @]

\* err wrapped in msg, nil staying nil.
WrapIf(err, msg) == IF err # NoErr THEN Wrap(err, msg) ELSE NoErr

\* What the provider phase `phase` of job j does.
ProviderStep(j, phase) ==
  IF phase = ProcessingPhaseInfo
    THEN LET r == MockInfo(j.mdp)
         IN  IterateJob(j, r.m, r.phase, r.err,
                        WrapIf(r.err, "Unable to obtain information about data source"), << >>)
    ELSE IF phase = ProcessingPhaseTransferScratch
      THEN LET r == MockTransfer(j.mdp, j.dp.scratchDataDir)
           IN  IterateJob(j, r.m, r.phase, r.err,
                          IF r.err = ErrInvalidPath
                            THEN ErrRequiresScratchSpace
                            ELSE WrapIf(r.err, "Unable to transfer source data to scratch space"),
                          << >>)
      ELSE IF phase = ProcessingPhaseTransferDataDir
        THEN LET r == MockTransfer(j.mdp, j.dp.dataDir)
             IN  IterateJob(j, r.m, r.phase, r.err,
                            WrapIf(r.err, "Unable to transfer source data to target directory"),
                            << >>)
        ELSE LET r == MockProcess(j.mdp)
             IN  IterateJob(j, r.m, r.phase, r.err,
                            WrapIf(r.err, "Unable to process data"), << >>)

\* What the phase `phase` of job j does when it works on the image through
\* the adapter o.
ImageStep(j, o, phase) ==
  IF phase = ProcessingPhaseTransferDataFile
    THEN LET r == MockTransferFile(j.mdp, j.dp.dataFile)
             v == FakeValidate(o, j.dp.dataFile, j.dp.availableSpace)
         IN  IF r.err # NoErr
               THEN IterateJob(j, r.m, r.phase, r.err,
                               Wrap(r.err, "Unable to transfer source data to target file"),
                               << >>)
               ELSE IF r.phase = ProcessingPhaseComplete
                      THEN IterateJob(j, r.m, r.phase, v, WrapIf(v, "Image validation failed"),
                                      <<ToolCall("Validate", j.dp.dataFile, j.dp.availableSpace)>>)
                      ELSE IterateJob(j, r.m, r.phase, NoErr, NoErr, << >>)
    ELSE IF phase = ProcessingPhaseConvert
      THEN LET r == convert(j.dp, o, SourceURL)
           IN  IterateJob(j, j.mdp, r.phase, r.err,
                          WrapIf(r.err, "Unable to convert source data to target format"),
                          r.calls)
      ELSE LET r == resize(j.dp, o, j.dataDirExists)
           IN  IterateJob(j, j.mdp, r.phase, r.err,
                          WrapIf(r.err, "Unable to resize disk image to requested size"),
                          r.calls)

\* One step of job j's ProcessData() with the adapter o in force, as a
\* function of the job alone.
ProcessStep(j, o) ==
  LET phase == j.dp.currentPhase
  IN  IF j.pc # "running"
        THEN j
        ELSE IF phase = ProcessingPhaseComplete
          THEN [j EXCEPT !.pc = "done", !.ret = NoErr]
          ELSE IF phase \notin HandledPhases
            THEN [j EXCEPT !.pc = "done", !.ret = UnknownPhaseErr]
            ELSE IF Len(j.dispatched) >= MaxDispatch
              THEN j
              ELSE IF phase \in {ProcessingPhaseTransferDataFile, ProcessingPhaseConvert,
                                  ProcessingPhaseResize}
                THEN ImageStep(j, o, phase)
                ELSE ProviderStep(j, phase)

\* Every step of ProcessData()'s loop is the step ProcessStep computes.
ProcessStepAgrees == [][JobView' = ProcessStep(JobView, qemuOperations)]_vars

\* The providers of the two jobs.
JobProviders ==
  { NewMockDataProvider(i, t, p, FALSE) :
      i \in {ProcessingPhaseTransferScratch, ProcessingPhaseTransferDataDir,
             ProcessingPhaseTransferDataFile, ProcessingPhaseConvert, InvalidPhase},
      t \in {ProcessingPhaseProcess, ProcessingPhaseComplete},
      p \in {ProcessingPhaseConvert, ProcessingPhaseComplete} }

\* The second job's DataProcessor: its own destination and directories.
SecondDataProcessor ==
  [NewDataProcessor("dest2", "dataDir2", "scratchDataDir2", 1500, 1500)
     EXCEPT !.dataFile = "dataDir2/disk.img"]

\* Two jobs that have both entered ProcessData(); the first one runs.
JobsInit ==
  /\ mdp \in JobProviders
  /\ qemuOperations \in
       { NewFakeQEMUOperations(NoErr, NoErr, FakeInfoOpRetVal(SmallVirtualSize, NoErr), NoErr),
         NewFakeQEMUOperations(NewErr("Conversion failure"), NewErr("Resize failure"),
                               FakeInfoOpRetVal(SmallVirtualSize, NewErr("Info failure")),
                               NewErr("Validation failure")) }
  /\ dp = NewDataProcessor(DestPath, DataDir, ScratchDataDir, 1500, 1500)
  /\ dataDirExists \in BOOLEAN
  /\ pc = "running"
  /\ ret = NoErr
  /\ dispatched = << >>
  /\ handlerErr = NoErr
  /\ qemuCalls = << >>
  /\ stage = NoStage
  /\ getAvailableSpaceBlockFunc = GetAvailableSpaceBlock
  /\ fsFree = dp.availableSpace
  /\ probeCalls = << >>
  /\ frames = << >>
  /\ panicking = FALSE
  /\ ended = NoneEnded
  /\ goroutines = NoGoroutines
  /\ request = NoRequest
  /\ response = NoResponse
  /\ sched \in { [current |-> 1, parked |-> NewJob(m, SecondDataProcessor, TRUE),
                  initial |-> <<NewJob(mdp, dp, dataDirExists),
                                NewJob(m, SecondDataProcessor, TRUE)>>] :
                 m \in JobProviders }

\* A scheduler that changes the DataProcessor but leaves the provider of the
\* job that ran bound to the one that runs next.
SwitchJob_SharedProvider ==
  /\ sched.initial # << >>
  /\ mdp' = mdp
  /\ dp' = sched.parked.dp
  /\ dataDirExists' = sched.parked.dataDirExists
  /\ pc' = sched.parked.pc
  /\ ret' = sched.parked.ret
  /\ dispatched' = sched.parked.dispatched
  /\ handlerErr' = sched.parked.handlerErr
  /\ qemuCalls' = sched.parked.qemuCalls
  /\ sched' = [sched EXCEPT !.current = 3 - @, !.parked = JobView]
  /\ UNCHANGED <<qemuOperations, stage, estimatorVars, overrideVars, webhookVars>>

\* The scheduler lets the other job run: between two handler calls of one
\* job the other may make any number of its own.
SwitchJob ==
  /\ sched.initial # << >>
  /\ mdp' = sched.parked.mdp
  /\ dp' = sched.parked.dp
  /\ dataDirExists' = sched.parked.dataDirExists
  /\ pc' = sched.parked.pc
  /\ ret' = sched.parked.ret
  /\ dispatched' = sched.parked.dispatched
  /\ handlerErr' = sched.parked.handlerErr
  /\ qemuCalls' = sched.parked.qemuCalls
  /\ sched' = [sched EXCEPT !.current = 3 - @, !.parked = JobView]
  /\ UNCHANGED <<qemuOperations, stage, estimatorVars, overrideVars, webhookVars>>

JobsNext ==
  \/ Next
  \/ SwitchJob

JobsSpec == JobsInit /\ [][JobsNext]_vars

\* Job i as it is now.
JobState(i) == IF sched.current = i THEN JobView ELSE sched.parked

\* Job j after k steps of a ProcessData() that nothing interleaves with.
RECURSIVE RunAlone(_, _, _)
RunAlone(j, o, k) == IF k = 0 THEN j ELSE RunAlone(ProcessStep(j, o), o, k - 1)

\* The states job j passes through when it runs alone.
RECURSIVE SoloStates(_, _, _)
SoloStates(j, o, k) ==
  IF k = 0 THEN {j} ELSE {j} \cup SoloStates(ProcessStep(j, o), o, k - 1)

(* ------------------------------------------------------------------ *)
(* C20                                                                *)
(* ------------------------------------------------------------------ *)

C22_SentinelOnlyFromScratchTransfer ==
  Returned =>
    /\ ret = ErrRequiresScratchSpace =>
         /\ InvalidScratchPath
         /\ mdp.needsScratch
         /\ mdp.transferResponse = ProcessingPhaseError
    /\ (handlerErr # NoErr /\ ~InvalidScratchPath) =>
         /\ ret # NoErr
         /\ ret # ErrRequiresScratchSpace
         /\ ~Mentions(ret, ErrRequiresScratchSpace[1])

\* Transfer failed with the invalid-transfer-path error in TransferDataDir
\* and the error returned carries it, wrapped, and is not the sentinel.
C22_Witness ==
  /\ Returned
  /\ LastDispatched = ProcessingPhaseTransferDataDir
  /\ handlerErr = ErrInvalidPath
  /\ ret # ErrRequiresScratchSpace
  /\ Cause(ret) = Cause(ErrInvalidPath)

(* ------------------------------------------------------------------ *)
(* C23                                                                *)
(* ------------------------------------------------------------------ *)

\* C23: no direct call of resize() or ResizeImage() invokes Resize with a
\* target smaller than the logical size the image has.
C23_ResizeOnlyGrows ==
  \A i \in 1..Len(stage.calls) :
    stage.calls[i].op = "Resize" =>
      stage.calls[i].size >= qemuOperations.ret4.virtualSize

(* ------------------------------------------------------------------ *)
(* replaceQEMUOperations() from two goroutines                        *)
(* ------------------------------------------------------------------ *)

\* A goroutine about to call replaceQEMUOperations(replacement, f).
NewGoroutine(replacement) ==
  [pc |-> "start", replacement |-> replacement, orig |-> NilQEMUOperations,
   deferred |-> FALSE, how |-> "running"]

\* Two goroutines, each about to replace the adapter, nothing replaced yet.
ConcurrentInit ==
  /\ mdp = NewMockDataProvider(ProcessingPhaseInfo, ProcessingPhaseInfo,
                               ProcessingPhaseInfo, FALSE)
  /\ qemuOperations = ProductionQEMUOperations
  /\ dp = NewDataProcessor(DestPath, DataDir, ScratchDataDir, BlankSize, SmallVirtualSize)
  /\ dataDirExists = FALSE
  /\ pc = "idle"
  /\ ret = NoErr
  /\ dispatched = << >>
  /\ handlerErr = NoErr
  /\ qemuCalls = << >>
  /\ stage = NoStage
  /\ getAvailableSpaceBlockFunc = GetAvailableSpaceBlock
  /\ fsFree = dp.availableSpace
  /\ probeCalls = << >>
  /\ frames = << >>
  /\ panicking = FALSE
  /\ ended = NoneEnded
  /\ goroutines \in { <<NewGoroutine(a), NewGoroutine(b)>> :
                        a \in QEMUReplacements, b \in QEMUReplacements }
  /\ request = NoRequest
  /\ response = NoResponse
  /\ sched = NoSched

\* What a step of one goroutine leaves alone.
GoroutineFrame ==
  UNCHANGED <<mdp, dp, dataDirExists, pc, ret, dispatched, handlerErr, qemuCalls,
              stage, estimatorVars, frames, panicking, ended, sched, webhookVars>>

\* orig := qemuOperations
SaveOrig(g) ==
  /\ goroutines[g].pc = "start"
  /\ goroutines' = [goroutines EXCEPT ![g].pc = "saved", ![g].orig = qemuOperations]
  /\ UNCHANGED qemuOperations
  /\ GoroutineFrame

\* if replacement != nil { qemuOperations = replacement; defer ... }, then f() starts
InstallReplacement(g) ==
  /\ goroutines[g].pc = "saved"
  /\ IF goroutines[g].replacement # NilQEMUOperations
       THEN /\ qemuOperations' = goroutines[g].replacement
            /\ goroutines' = [goroutines EXCEPT ![g].pc = "inF", ![g].deferred = TRUE]
       ELSE /\ qemuOperations' = qemuOperations
            /\ goroutines' = [goroutines EXCEPT ![g].pc = "inF"]
  /\ GoroutineFrame

\* f() returns or panics, and the deferred function, if any, assigns orig back.
RunDeferred(g) ==
  /\ goroutines[g].pc = "inF"
  /\ \E how \in {"return", "panic"} :
       goroutines' = [goroutines EXCEPT ![g].pc = "done", ![g].how = how]
  /\ qemuOperations' = IF goroutines[g].deferred THEN goroutines[g].orig ELSE qemuOperations
  /\ GoroutineFrame

ConcurrentNext ==
  \/ \E g \in DOMAIN goroutines : SaveOrig(g)
  \/ \E g \in DOMAIN goroutines : InstallReplacement(g)
  \/ \E g \in DOMAIN goroutines : RunDeferred(g)

ConcurrentSpec == ConcurrentInit /\ [][ConcurrentNext]_vars

(* ------------------------------------------------------------------ *)
(* C27                                                                *)
(* ------------------------------------------------------------------ *)

\* C27: once two replaceQEMUOperations() calls of concurrent goroutines have
\* both finished, the global adapter is the one in force before either began.
C27_OriginalAfterBoth ==
  ( goroutines # NoGoroutines /\ \A g \in DOMAIN goroutines : goroutines[g].pc = "done" ) =>
    qemuOperations = ProductionQEMUOperations

(* ------------------------------------------------------------------ *)
(* The validating webhook: validateDataVolumeSpec()                   *)
(* ------------------------------------------------------------------ *)

\* k8sfield.NewPath(name) and path.Child(names...): a path is its names.
NewPath(name) == <<name>>
Child(path, names) == path \o names

\* metav1.StatusCause{Type, Message, Field}; a message is the text and the
\* values formatted into it.
StatusCause(type, message, field) == [Type |-> type, Message |-> message, Field |-> field]

\* The source URLs of the requests.
SourceURLs == {"", "http://host/disk.img", "https://host/disk.img",
               "s3://bucket/disk.img", "disk.img"}

\* url.ParseRequestURI(sourceURL): the scheme of an absolute URL, an error
\* for a string that is neither absolute nor a path.
ParseRequestURI(sourceURL) ==
  IF sourceURL = "http://host/disk.img" THEN [err |-> NoErr, Scheme |-> "http"]
  ELSE IF sourceURL = "https://host/disk.img" THEN [err |-> NoErr, Scheme |-> "https"]
  ELSE IF sourceURL = "s3://bucket/disk.img" THEN [err |-> NoErr, Scheme |-> "s3"]
  ELSE [err |-> NewErr("invalid URI for request"), Scheme |-> ""]

\* func validateSourceURL(sourceURL string) string
validateSourceURL(sourceURL) ==
  IF sourceURL = ""
    THEN <<"source URL is empty">>
    ELSE LET url == ParseRequestURI(sourceURL)
         IN  IF url.err # NoErr
               THEN <<"Invalid source URL:", sourceURL>>
               ELSE IF url.Scheme # "http" /\ url.Scheme # "https"
                      THEN <<"Invalid source URL scheme:", sourceURL>>
                      ELSE << >>

\* cdicorev1alpha1.DataVolumeKubeVirt, DataVolumeArchive
DataVolumeKubeVirt == "kubevirt"
DataVolumeArchive == "archive"

\* v1.ReadWriteOnce, v1.ReadOnlyMany, v1.ReadWriteMany
SupportedAccessModes == {"ReadWriteOnce", "ReadOnlyMany", "ReadWriteMany"}

\* What validateDataVolumeSpec() hands back: the causes, or a run-time panic.
Causes(causes) == [causes |-> causes, panic |-> FALSE]
Panics == [causes |-> << >>, panic |-> TRUE]

\* The condition of the second if with the pair (Blank, Registry) left out.
MultipleSources_MissesLastPair(src) ==
  \/ src.HTTP /\ (src.S3 \/ src.PVC \/ src.Upload \/ src.Blank \/ src.Registry)
  \/ src.S3 /\ (src.PVC \/ src.Upload \/ src.Blank \/ src.Registry)
  \/ src.PVC /\ (src.Upload \/ src.Blank \/ src.Registry)
  \/ src.Upload /\ (src.Blank \/ src.Registry)

\* The condition of the second if: some two of the six sources are set.
MultipleSources(src) ==
  \/ src.HTTP /\ (src.S3 \/ src.PVC \/ src.Upload \/ src.Blank \/ src.Registry)
  \/ src.S3 /\ (src.PVC \/ src.Upload \/ src.Blank \/ src.Registry)
  \/ src.PVC /\ (src.Upload \/ src.Blank \/ src.Registry)
  \/ src.Upload /\ (src.Blank \/ src.Registry)
  \/ src.Blank /\ src.Registry

\* The condition of the first if: none of the six sources is set.
NoSource(src) ==
  ~src.HTTP /\ ~src.S3 /\ ~src.PVC /\ ~src.Upload /\ ~src.Blank /\ ~src.Registry

\* From spec.PVC on: the claim must be there, ask for a positive size, and
\* name at most one access mode, which is then read as accessModes[0].
validatePVC(field, spec) ==
  IF spec.PVC.isNil
    THEN Causes(<<StatusCause("FieldValueInvalid", <<"Missing Data volume PVC">>,
                              Child(field, <<"PVC">>))>>)
  ELSE IF ~spec.PVC.hasStorage
    THEN Causes(<<StatusCause("FieldValueInvalid", <<"PVC size is missing">>,
                              Child(field, <<"PVC", "resources", "requests", "size">>))>>)
  ELSE IF spec.PVC.size <= 0
    THEN Causes(<<StatusCause("FieldValueInvalid",
                              <<"PVC size can't be equal or less than zero">>,
                              Child(field, <<"PVC", "resources", "requests", "size">>))>>)
  ELSE IF Len(spec.PVC.AccessModes) > 1
    THEN Causes(<<StatusCause("FieldValueInvalid", <<"PVC multiple accessModes">>,
                              Child(field, <<"PVC", "accessModes">>))>>)
  ELSE IF Len(spec.PVC.AccessModes) < 1
    THEN Panics
  ELSE IF spec.PVC.AccessModes[1] \notin SupportedAccessModes
    THEN Causes(<<StatusCause("FieldValueInvalid",
                              <<"Unsupported value:", spec.PVC.AccessModes[1],
                                "supported values: ReadOnlyMany, ReadWriteMany, ReadWriteOnce">>,
                              Child(field, <<"PVC", "accessModes">>))>>)
  ELSE Causes(<< >>)

\* The checks of a PVC source: it is named, it exists, and it can be cloned
\* into spec.PVC; without a client only the first is made.
validateSourcePVC(field, spec, cluster) ==
  IF ~spec.Source.PVCNamed
    THEN Causes(<<StatusCause("FieldValueInvalid", <<"source PVC is not valid">>,
                              Child(field, <<"source", "PVC">>))>>)
  ELSE IF ~cluster.client
    THEN Causes(<< >>)
  ELSE IF cluster.get = "notfound"
    THEN Causes(<<StatusCause("FieldValueNotFound", <<"Source PVC doesn't exist">>,
                              Child(field, <<"source", "PVC">>))>>)
  ELSE IF cluster.clone = "panic"
    THEN Panics
  ELSE IF cluster.clone = "incompatible"
    THEN Causes(<<StatusCause("FieldValueInvalid", <<"source and target are not compatible">>,
                              Child(field, <<"PVC">>))>>)
  ELSE Causes(<< >>)

\* From the content type on.
validateContent(field, spec, cluster) ==
  IF spec.ContentType # "" /\ spec.ContentType # DataVolumeKubeVirt
     /\ spec.ContentType # DataVolumeArchive
    THEN Causes(<<StatusCause("FieldValueInvalid", <<"ContentType not one of:",
                              DataVolumeKubeVirt, DataVolumeArchive>>,
                              Child(field, <<"contentType">>))>>)
  ELSE IF spec.Source.Blank /\ spec.ContentType = DataVolumeArchive
    THEN Causes(<<StatusCause("FieldValueInvalid",
                              <<"SourceType cannot be blank and the contentType be archive">>,
                              Child(field, <<"contentType">>))>>)
  ELSE IF spec.Source.Registry /\ spec.ContentType # ""
          /\ spec.ContentType # DataVolumeKubeVirt
    THEN Causes(<<StatusCause("FieldValueInvalid",
                              <<"ContentType must be", DataVolumeKubeVirt, "when Source is Registry">>,
                              Child(field, <<"contentType">>))>>)
  ELSE LET src == IF spec.Source.PVC THEN validateSourcePVC(field, spec, cluster)
                                     ELSE Causes(<< >>)
       IN  IF src.panic \/ src.causes # << >> THEN src ELSE validatePVC(field, spec)

\* func validateDataVolumeSpec(field *k8sfield.Path, spec *DataVolumeSpec) []metav1.StatusCause
validateDataVolumeSpec(field, spec, cluster) ==
  IF NoSource(spec.Source)
    THEN Causes(<<StatusCause("FieldValueInvalid", <<"Missing Data volume source">>,
                              Child(field, <<"source">>))>>)
  ELSE IF MultipleSources(spec.Source)
    THEN Causes(<<StatusCause("FieldValueInvalid", <<"Multiple Data volume sources">>,
                              Child(field, <<"source">>))>>)
  ELSE IF (spec.Source.HTTP \/ spec.Source.S3) /\ validateSourceURL(spec.Source.URL) # << >>
    THEN Causes(<<StatusCause("FieldValueInvalid",
                              Child(field, <<"source">>) \o validateSourceURL(spec.Source.URL),
                              Child(field, <<"source", IF spec.Source.HTTP THEN "HTTP" ELSE "S3",
                                             "url">>))>>)
  ELSE validateContent(field, spec, cluster)

\* spec.Source: which of the six sources are set, the URL of the HTTP or S3
\* source, and whether the PVC source has both a namespace and a name.
DataVolumeSources ==
  [HTTP : BOOLEAN, S3 : BOOLEAN, PVC : BOOLEAN, Upload : BOOLEAN, Blank : BOOLEAN,
   Registry : BOOLEAN, URL : SourceURLs, PVCNamed : BOOLEAN]

\* spec.PVC: nil, or a claim spec with its storage request and access modes.
NilPVC == [isNil |-> TRUE, hasStorage |-> FALSE, size |-> 0, AccessModes |-> << >>]
ClaimSpec(hasStorage, size, accessModes) ==
  [isNil |-> FALSE, hasStorage |-> hasStorage, size |-> size, AccessModes |-> accessModes]

\* The claim specs of the requests.
ClaimSpecs ==
  { NilPVC,
    ClaimSpec(FALSE, 0, <<"ReadWriteOnce">>),
    ClaimSpec(TRUE, 0, <<"ReadWriteOnce">>),
    ClaimSpec(TRUE, -1, <<"ReadWriteOnce">>) }
  \cup { ClaimSpec(TRUE, 1, am) :
           am \in { << >>, <<"ReadWriteOnce">>, <<"ReadWriteOncePod">>,
                    <<"ReadWriteOnce", "ReadWriteMany">> } }

\* The content types of the requests.
ContentTypes == {"", DataVolumeKubeVirt, DataVolumeArchive, "raw"}

\* What the webhook finds when it asks the cluster: whether GetClient() is
\* non-nil, how the Get of the source PVC ends, what the clone validation of
\* the controller answers, the claims of the namespace and whether listing
\* them fails.
Cluster(client, get, clone, pvcs, listFails) ==
  [client |-> client, get |-> get, clone |-> clone, pvcs |-> pvcs, listFails |-> listFails]

\* The clusters validateDataVolumeSpec() is called in; a Get that failed
\* otherwise than with NotFound may leave the clone validation a nil pointer.
ValidateClusters ==
  { Cluster(FALSE, "found", "ok", << >>, FALSE),
    Cluster(TRUE, "found", "ok", << >>, FALSE),
    Cluster(TRUE, "found", "incompatible", << >>, FALSE),
    Cluster(TRUE, "notfound", "ok", << >>, FALSE),
    Cluster(TRUE, "error", "ok", << >>, FALSE),
    Cluster(TRUE, "error", "panic", << >>, FALSE) }

\* A DataVolumeSpec handed to validateDataVolumeSpec().
ValidateInit ==
  /\ mdp = NewMockDataProvider(ProcessingPhaseInfo, ProcessingPhaseInfo,
                               ProcessingPhaseInfo, FALSE)
  /\ qemuOperations = ProductionQEMUOperations
  /\ dp = NewDataProcessor(DestPath, DataDir, ScratchDataDir, BlankSize, SmallVirtualSize)
  /\ dataDirExists = FALSE
  /\ pc = "idle"
  /\ ret = NoErr
  /\ dispatched = << >>
  /\ handlerErr = NoErr
  /\ qemuCalls = << >>
  /\ stage = NoStage
  /\ getAvailableSpaceBlockFunc = GetAvailableSpaceBlock
  /\ fsFree = dp.availableSpace
  /\ probeCalls = << >>
  /\ frames = << >>
  /\ panicking = FALSE
  /\ ended = NoneEnded
  /\ goroutines = NoGoroutines
  /\ request \in { [kind |-> "spec",
                    spec |-> [Source |-> src, ContentType |-> ct, PVC |-> pvc],
                    cluster |-> cluster] :
                   src \in DataVolumeSources, ct \in ContentTypes, pvc \in ClaimSpecs,
                   cluster \in ValidateClusters }
  /\ response = NoResponse
  /\ sched = NoSched

\* causes := validateDataVolumeSpec(k8sfield.NewPath("spec"), &dv.Spec)
CallValidateDataVolumeSpec ==
  /\ request.kind = "spec"
  /\ response = NoResponse
  /\ response' = [fn |-> "validateDataVolumeSpec",
                  result |-> validateDataVolumeSpec(NewPath("spec"), request.spec,
                                                    request.cluster)]
  /\ UNCHANGED <<engineVars, stage, estimatorVars, overrideVars, sched, request>>

ValidateNext == CallValidateDataVolumeSpec

ValidateSpec == ValidateInit /\ [][ValidateNext]_vars

\* The six source fields, and how many of them a spec sets.
SourceKinds == {"HTTP", "S3", "PVC", "Upload", "Blank", "Registry"}
SourcesSet(spec) == Cardinality({ k \in SourceKinds : spec.Source[k] })

\* The single cause with message `text` on field spec.source.
SourceCause(text) ==
  Causes(<<StatusCause("FieldValueInvalid", <<text>>, <<"spec", "source">>)>>)

(* ------------------------------------------------------------------ *)
(* C24                                                                *)
(* ------------------------------------------------------------------ *)

\* C24: for each of the 64 combinations of the six sources,
\* validateDataVolumeSpec() answers the single cause "Missing Data volume
\* source" when none is set, the single cause "Multiple Data volume sources"
\* when two or more are set, and goes on to the later checks, answering
\* neither of these, only when exactly one is set.
C24_ExactlyOneSource ==
  response.fn = "validateDataVolumeSpec" =>
    LET n == SourcesSet(request.spec)
    IN  /\ n = 0 => response.result = SourceCause("Missing Data volume source")
        /\ n >= 2 => response.result = SourceCause("Multiple Data volume sources")
        /\ n = 1 => response.result \notin { SourceCause("Missing Data volume source"),
                                             SourceCause("Multiple Data volume sources") }

\* A spec with the sources Blank and Registry, the last pair the code tests,
\* was refused for its multiple sources.
C24_Witness ==
  /\ response.fn = "validateDataVolumeSpec"
  /\ { k \in SourceKinds : request.spec.Source[k] } = {"Blank", "Registry"}
  /\ response.result = SourceCause("Multiple Data volume sources")

(* ------------------------------------------------------------------ *)
(* C25                                                                *)
(* ------------------------------------------------------------------ *)

\* C25: validateDataVolumeSpec() reads accessModes[0] only of a list that has
\* an element: whatever the access modes of a spec, the call ends with its
\* causes and not with a run-time panic (a clone validation that panics set
\* aside).
C25_AccessModeInRange ==
  ( response.fn = "validateDataVolumeSpec" /\ request.cluster.clone # "panic" ) =>
    ~response.result.panic

(* ------------------------------------------------------------------ *)
(* The validating webhook: admitDVs()                                 *)
(* ------------------------------------------------------------------ *)

\* http.StatusOK, http.StatusBadRequest, http.StatusUnprocessableEntity
StatusOK == 200
StatusBadRequest == 400
StatusUnprocessableEntity == 422

\* metav1.Status{Message, Code, Details.Causes}; NilStatus is a nil Result.
Status(message, code, causes) == [Message |-> message, Code |-> code, Causes |-> causes]
NilStatus == [Message |-> << >>, Code |-> 0, Causes |-> << >>]

\* v1beta1.AdmissionResponse{UID, Allowed, Result}
AdmissionResponse(allowed, result) == [UID |-> "", Allowed |-> allowed, Result |-> result]

\* What an admitFunc hands back: a response, nil, or a run-time panic.
Responds(r) == [response |-> r, isNil |-> FALSE, panic |-> FALSE]
RespondsNil == [response |-> AdmissionResponse(FALSE, NilStatus), isNil |-> TRUE, panic |-> FALSE]
AdmitPanics == [response |-> AdmissionResponse(FALSE, NilStatus), isNil |-> FALSE, panic |-> TRUE]

\* The messages of the causes, each after a blank, one after the other.
RECURSIVE GlobalMessage(_)
GlobalMessage(causes) ==
  IF causes = << >> THEN << >> ELSE <<" ">> \o Head(causes).Message \o GlobalMessage(Tail(causes))

\* func toRejectedAdmissionResponse(causes []metav1.StatusCause) *v1beta1.AdmissionResponse
toRejectedAdmissionResponse(causes) ==
  AdmissionResponse(FALSE, Status(GlobalMessage(causes), StatusUnprocessableEntity, causes))

\* func toAdmissionResponseError(err error) *v1beta1.AdmissionResponse
toAdmissionResponseError(err) ==
  AdmissionResponse(FALSE, Status(err, StatusBadRequest, << >>))

\* The resource admitDVs() expects, and others a request may name.
DataVolumesResource ==
  [Group |-> "cdi.kubevirt.io", Version |-> "v1alpha1", Resource |-> "datavolumes"]
RequestResources ==
  { DataVolumesResource,
    [Group |-> "cdi.kubevirt.io", Version |-> "v1beta1", Resource |-> "datavolumes"],
    [Group |-> "", Version |-> "v1", Resource |-> "pods"] }

\* A DataVolumeSpec with every field at its zero value.
ZeroSpec ==
  [Source |-> [HTTP |-> FALSE, S3 |-> FALSE, PVC |-> FALSE, Upload |-> FALSE,
               Blank |-> FALSE, Registry |-> FALSE, URL |-> "", PVCNamed |-> FALSE],
   ContentType |-> "", PVC |-> NilPVC]

\* The bytes of ar.Request.Object.Raw: no JSON, or a JSON object with a name
\* and, when hasSpec, a spec.
RawGarbage == [kind |-> "garbage", name |-> "", hasSpec |-> FALSE, spec |-> ZeroSpec]
RawObject(name, hasSpec, spec) == [kind |-> "json", name |-> name, hasSpec |-> hasSpec, spec |-> spec]

\* json.Unmarshal(raw, &dv): fields the object lacks keep their zero value.
UnmarshalDataVolume(raw) ==
  IF raw.kind = "json"
    THEN [err |-> NoErr, Name |-> raw.name,
          Spec |-> IF raw.hasSpec THEN raw.spec ELSE ZeroSpec]
    ELSE [err |-> NewErr("invalid character looking for beginning of value"),
          Name |-> "", Spec |-> ZeroSpec]

\* for _, pvc := range pvcs.Items { if pvc.Name == name ... }
PVCExists(pvcs, name) == \E i \in 1..Len(pvcs) : pvcs[i] = name

\* The cause of a destination PVC that exists already.
DuplicateCause ==
  StatusCause("FieldValueDuplicate", <<"Destination PVC already exists">>,
              Child(NewPath("DataVolume"), <<"Name">>))

\* func admitDVs(ar *v1beta1.AdmissionReview) *v1beta1.AdmissionResponse
admitDVs(ar, cluster) ==
  IF ~ar.hasRequest
    THEN AdmitPanics
  ELSE IF ar.Request.Resource # DataVolumesResource
    THEN Responds(toAdmissionResponseError(<<"expect resource to be", "datavolumes">>))
  ELSE LET dv == UnmarshalDataVolume(ar.Request.Object)
           v  == validateDataVolumeSpec(NewPath("spec"), dv.Spec, cluster)
       IN  IF dv.err # NoErr
             THEN Responds(toAdmissionResponseError(dv.err))
           ELSE IF cluster.client /\ cluster.listFails
             THEN Responds(toAdmissionResponseError(NewErr("list failed")))
           ELSE IF cluster.client /\ PVCExists(cluster.pvcs, dv.Name)
             THEN Responds(toRejectedAdmissionResponse(<<DuplicateCause>>))
           ELSE IF v.panic
             THEN AdmitPanics
           ELSE IF Len(v.causes) > 0
             THEN Responds(toRejectedAdmissionResponse(v.causes))
           ELSE Responds(AdmissionResponse(TRUE, NilStatus))

(* ------------------------------------------------------------------ *)
(* The validating webhook: serve()                                    *)
(* ------------------------------------------------------------------ *)

\* v1beta1.AdmissionRequest{UID, Resource, Object}; NilRequest stands where
\* ar.Request is nil.
AdmissionRequest(uid, resource, object) == [UID |-> uid, Resource |-> resource, Object |-> object]
NilRequest == AdmissionRequest("", [Group |-> "", Version |-> "", Resource |-> ""], RawGarbage)

\* The body of an HTTP request: none, bytes that are no JSON, or the JSON of
\* an admission review, with or without its "request".
NoBody == [kind |-> "none", hasRequest |-> FALSE, Request |-> NilRequest]
GarbageBody == [kind |-> "garbage", hasRequest |-> FALSE, Request |-> NilRequest]
ReviewBody(hasRequest, req) == [kind |-> "json", hasRequest |-> hasRequest, Request |-> req]

\* func toAdmissionReview(r *http.Request) (*v1beta1.AdmissionReview, error)
toAdmissionReview(r) ==
  IF r.contentType # "application/json"
    THEN [err |-> <<"contentType=", r.contentType, "expect application/json">>,
          ar |-> [hasRequest |-> FALSE, Request |-> NilRequest]]
  ELSE IF r.body.kind # "json"
    THEN [err |-> NewErr("unexpected end of JSON input"),
          ar |-> [hasRequest |-> FALSE, Request |-> NilRequest]]
  ELSE [err |-> NoErr,
        ar |-> [hasRequest |-> r.body.hasRequest,
                Request |-> IF r.body.hasRequest THEN r.body.Request ELSE NilRequest]]

\* The admitFunc handed to serve(): admitDVs, or one that allows everything,
\* or one that answers nil.
Admit(admit, ar, cluster) ==
  IF admit = "admitDVs" THEN admitDVs(ar, cluster)
  ELSE IF admit = "allowAll" THEN Responds(AdmissionResponse(TRUE, NilStatus))
  ELSE RespondsNil

\* An http.ResponseWriter: the status that went out (0: none yet) and the
\* admission review written, if one was.
NewResponseWriter ==
  [status |-> 0, written |-> FALSE, hasResponse |-> FALSE,
   Response |-> AdmissionResponse(FALSE, NilStatus)]

\* resp.WriteHeader(code): only the first status counts.
WriteHeader(w, code) == IF w.status = 0 THEN [w EXCEPT !.status = code] ELSE w

\* resp.Write(json.Marshal(response)): sends StatusOK first when no status
\* went out; the body arrives unless the write fails.
Write(w, hasResponse, body, writeFails) ==
  LET w1 == WriteHeader(w, StatusOK)
  IN  IF writeFails
        THEN w1
        ELSE [w1 EXCEPT !.written = TRUE, !.hasResponse = hasResponse, !.Response = body]

\* What a call of serve() leaves: the writer, how often admit was called,
\* and whether the call ended in a run-time panic.
Served(w, admitCalls, panic) == [w |-> w, admitCalls |-> admitCalls, panic |-> panic]

\* func serve(resp http.ResponseWriter, req *http.Request, admit admitFunc)
serve(req, admit, cluster, writeFails) ==
  LET review == toAdmissionReview(req)
      reviewResponse == Admit(admit, review.ar, cluster)
      w == NewResponseWriter
  IN  IF review.err # NoErr
        THEN Served(WriteHeader(w, StatusBadRequest), 0, FALSE)
      ELSE IF reviewResponse.panic \/ ~review.ar.hasRequest
        THEN Served(w, 1, TRUE)
      ELSE LET answer == [reviewResponse.response EXCEPT !.UID = review.ar.Request.UID]
               w1 == Write(w, ~reviewResponse.isNil, answer, writeFails)
           IN  IF writeFails
                 THEN Served(WriteHeader(w1, StatusBadRequest), 1, FALSE)
                 ELSE Served(WriteHeader(w1, StatusOK), 1, FALSE)

\* The DataVolume specs of the admission requests.
AdmittedSpecs ==
  { [Source |-> [HTTP |-> h, S3 |-> FALSE, PVC |-> p, Upload |-> FALSE, Blank |-> b,
                 Registry |-> FALSE, URL |-> u, PVCNamed |-> TRUE],
     ContentType |-> ct, PVC |-> pvc] :
      h \in BOOLEAN, p \in BOOLEAN, b \in BOOLEAN,
      u \in {"", "http://host/disk.img"},
      ct \in {"", DataVolumeArchive},
      pvc \in { NilPVC, ClaimSpec(TRUE, 1, << >>), ClaimSpec(TRUE, 1, <<"ReadWriteOnce">>) } }

\* The admission requests: a DataVolume "dv1" with one of the specs, one
\* without a spec, bytes that are no JSON, and requests for other resources.
AdmissionRequests ==
  { AdmissionRequest("uid-1", DataVolumesResource, RawObject("dv1", TRUE, spec)) :
      spec \in AdmittedSpecs }
  \cup { AdmissionRequest("uid-1", res, raw) :
           res \in RequestResources,
           raw \in { RawGarbage, RawObject("dv1", FALSE, ZeroSpec) } }

\* The HTTP requests.
HTTPRequests ==
  { [contentType |-> ct, body |-> body] :
      ct \in {"application/json", "application/json; charset=utf-8", "text/plain"},
      body \in { NoBody, GarbageBody, ReviewBody(FALSE, NilRequest) }
               \cup { ReviewBody(TRUE, req) : req \in AdmissionRequests } }

\* The clusters the webhook runs in.
WebhookClusters ==
  { Cluster(FALSE, "found", "ok", <<"dv1">>, FALSE),
    Cluster(TRUE, "found", "ok", << >>, FALSE),
    Cluster(TRUE, "found", "ok", <<"other", "dv1">>, FALSE),
    Cluster(TRUE, "found", "ok", << >>, TRUE),
    Cluster(TRUE, "notfound", "ok", <<"other">>, FALSE),
    Cluster(TRUE, "found", "incompatible", << >>, FALSE) }

\* An HTTP request has reached the webhook.
WebhookInit ==
  /\ mdp = NewMockDataProvider(ProcessingPhaseInfo, ProcessingPhaseInfo,
                               ProcessingPhaseInfo, FALSE)
  /\ qemuOperations = ProductionQEMUOperations
  /\ dp = NewDataProcessor(DestPath, DataDir, ScratchDataDir, BlankSize, SmallVirtualSize)
  /\ dataDirExists = FALSE
  /\ pc = "idle"
  /\ ret = NoErr
  /\ dispatched = << >>
  /\ handlerErr = NoErr
  /\ qemuCalls = << >>
  /\ stage = NoStage
  /\ getAvailableSpaceBlockFunc = GetAvailableSpaceBlock
  /\ fsFree = dp.availableSpace
  /\ probeCalls = << >>
  /\ frames = << >>
  /\ panicking = FALSE
  /\ ended = NoneEnded
  /\ goroutines = NoGoroutines
  /\ request \in { [kind |-> "http", http |-> r, admit |-> admit, cluster |-> cluster,
                    writeFails |-> writeFails] :
                   r \in HTTPRequests, admit \in {"admitDVs", "allowAll", "nil"},
                   cluster \in WebhookClusters, writeFails \in BOOLEAN }
  /\ response = NoResponse
  /\ sched = NoSched

\* serve(resp, req, admit)
CallServe ==
  /\ request.kind = "http"
  /\ response = NoResponse
  /\ response' = [fn |-> "serve",
                  result |-> serve(request.http, request.admit, request.cluster,
                                   request.writeFails)]
  /\ UNCHANGED <<engineVars, stage, estimatorVars, overrideVars, sched, request>>

\* admitDVs(review) on the review the request decodes to.
CallAdmitDVs ==
  /\ request.kind = "http"
  /\ response = NoResponse
  /\ toAdmissionReview(request.http).err = NoErr
  /\ response' = [fn |-> "admitDVs",
                  result |-> admitDVs(toAdmissionReview(request.http).ar, request.cluster)]
  /\ UNCHANGED <<engineVars, stage, estimatorVars, overrideVars, sched, request>>

WebhookNext ==
  \/ CallServe
  \/ CallAdmitDVs

WebhookSpec == WebhookInit /\ [][WebhookNext]_vars

(* ------------------------------------------------------------------ *)
(* C21                                                                *)
(* ------------------------------------------------------------------ *)

\* The request has the JSON content type and a body that decodes as an
\* admission review.
DecodableReview ==
  /\ request.http.contentType = "application/json"
  /\ request.http.body.kind = "json"

\* C21: serve() answers 400 without calling admit when the content type is
\* not application/json or the body does not decode; otherwise it calls admit
\* once and answers 200 with a review whose response carries the decision and
\* the UID of the request.
C21_ServeContract ==
  response.fn = "serve" =>
    IF ~DecodableReview
      THEN /\ response.result.w.status = StatusBadRequest
           /\ response.result.admitCalls = 0
      ELSE /\ response.result.admitCalls = 1
           /\ ~response.result.panic
           /\ response.result.w.status = StatusOK
           /\ response.result.w.hasResponse
           /\ response.result.w.Response.UID = request.http.body.Request.UID

(* ------------------------------------------------------------------ *)
(* C26                                                                *)
(* ------------------------------------------------------------------ *)

\* The DataVolume of the request, decoded.
RequestedDV == UnmarshalDataVolume(request.http.body.Request.Object)

\* The causes validateDataVolumeSpec() reports for the DataVolume of the request.
ReportedCauses ==
  validateDataVolumeSpec(NewPath("spec"), RequestedDV.Spec, request.cluster).causes

\* The request is refused with code 400 before the cluster's claims are looked at.
BadRequest ==
  \/ request.http.body.Request.Resource # DataVolumesResource
  \/ RequestedDV.err # NoErr
  \/ request.cluster.client /\ request.cluster.listFails

\* A claim with the DataVolume's name is found in the namespace.
DuplicatePVC ==
  request.cluster.client /\ PVCExists(request.cluster.pvcs, RequestedDV.Name)

\* C26: admitDVs() allows a request exactly when its resource is
\* datavolumes, its object decodes, no claim of the DataVolume's name is
\* found and validateDataVolumeSpec() reports no cause; a wrong resource, an
\* undecodable object or a failed list is refused with 400; a duplicate claim,
\* decided first, or any validation cause is refused with 422.
C26_AdmitDecision ==
  ( response.fn = "admitDVs" /\ request.http.body.hasRequest ) =>
    LET r == response.result.response
    IN  /\ ~response.result.panic
        /\ r.Allowed <=> (~BadRequest /\ ~DuplicatePVC /\ ReportedCauses = << >>)
        /\ BadRequest => (~r.Allowed /\ r.Result.Code = StatusBadRequest)
        /\ (~BadRequest /\ DuplicatePVC) =>
             /\ ~r.Allowed
             /\ r.Result.Code = StatusUnprocessableEntity
             /\ r.Result.Causes = <<DuplicateCause>>
        /\ (~BadRequest /\ ~DuplicatePVC /\ ReportedCauses # << >>) =>
             /\ ~r.Allowed
             /\ r.Result.Code = StatusUnprocessableEntity
             /\ r.Result.Causes = ReportedCauses

====
